---- MODULE Spec2Model ----
(***************************************************************************)
(* ExpireMap (src/ExpireMap/expcache_golang/expcache.go): a map whose      *)
(* entries expire, with client operations Put / Get / Remove / Size and a  *)
(* background purger goroutine that replays the operation log into the     *)
(* sorted timeouts list, deletes expired entries and re-arms its timer.    *)
(*                                                                         *)
(* Every critical section taken under Cache.Lock()/RLock() is one atomic   *)
(* step.  The clock `now` counts milliseconds.                              *)
(* Values are opaque to the code: every effective Put stores a fresh       *)
(* value (its sequence number) so that a reader can tell which Put it      *)
(* observes.                                                               *)
(***************************************************************************)
EXTENDS Integers, Sequences, FiniteSets, TLC

\* ---------------------------------------------------------------- bounds
MaxTime == 3
MaxCalls == 3
MaxTimeoutMs == 2
LiveCalls == 2

Keys == {"k1", "k2"}
Clients == {"c1", "c2"}
TimeoutsMs == -1 .. MaxTimeoutMs

\* ------------------------------------------------------ program constants
\* math.MaxInt64, scaled to the largest integer TLC represents
MaxInt64 == 2147483647
\* time.Millisecond in clock ticks: the model clock ticks once a millisecond
Millisecond == 1

ADD == "ADD"
DEL == "DEL"
Nil == 0
NoTimer == -1

\* ---------------------------------------- Java: bounds and constants
JCalls == 2
JMaxTime == 3
\* ExpireCache(maxIdleMilliSec), as passed by the caller
maxIdleMilliSec == 2

\* Long.MAX_VALUE, scaled to the largest integer TLC represents
MaxLong == 2147483647
\* TimeoutManager.ADD and TimeoutManager.DEL
JADD == 0
JDEL == -1

VARIABLES
    data,           \* Cache.data: key -> TimedData{data, timeout}
    operLog,        \* TimeoutManager.operLog
    nextPurgeTime,  \* TimeoutManager.nextPurgeTime
    cacheSize,      \* TimeoutManager.cacheSize
    timeouts,       \* TimeoutManager.timeouts (sorted by timeout)
    resched,        \* number of signals buffered in chan resched (cap 1)
    purgeTimer,     \* instant the armed purgeTimer fires at, or NoTimer
    purgeTimerC,    \* purgeTimer.C holds a fired value
    now,            \* the clock
    pc,             \* position of the purger goroutine
    plog,           \* purger local: operLog taken by updateTimeoutsFromPendingList
    pnow,           \* purger local: now read by purgeAndResetTimer
    cpc,            \* per client: "idle" or "notify" (Unlock done, notifyResched due)
    seq,            \* number of calls that changed the cache; the next value stored is seq+1
    ret,            \* which client call ran last, and whether it returned early
    replaced,       \* keys whose current entry was written over an existing entry
    limit,          \* number of cache-changing calls the clients make in this run
    pendingRatio,   \* TimeoutManager.pendingRatio, args[0] of New
    pendingMax,     \* TimeoutManager.pendingMax, args[1] of New
    closed,         \* chan resched has been closed
    mu,             \* Cache.RWMutex: who holds it between two steps
    askers          \* history, kept where Lock() and Unlock() are steps: the clients with a record in operLog whose call returned needResched

\* the Java cache (src/unnamed/part_002: ExpireCache and TimeoutManager)
VARIABLES
    jdata,            \* ExpireCache.data: key -> ValueTime(value, time)
    timeoutsToAddDel, \* TimeoutManager.timeoutsToAddDel: key -> ValueTime
    nextWakeupTime,   \* TimeoutManager.nextWakeupTime
    jtimeouts,        \* TimeoutManager.timeouts (sorted by time)
    worker,           \* TimeoutManager.worker: "null" or "thread"
    hasNewMin,        \* TimeoutManager.hasNewMin
    hook,             \* shutdownHook is registered with the Runtime
    wpc,              \* position of the worker thread, "none" when there is none
    toToAddDel,       \* worker local: the map taken by updateAndGetMinTimeout
    currNanos,        \* worker local: clock read by updateAndGetMinTimeout
    nanoSec,          \* worker local: argument of await
    remainingNanos,   \* worker local in run
    waitUntil,        \* instant the awaitNanos of the worker times out at
    signalled,        \* the waiting worker was signalled on wakeupCond
    nanoTime,         \* System.nanoTime(), in milliseconds
    jcpc,             \* per client thread: position in its call
    jloc,             \* per client thread: key and newTO of the put under way
    jseq,             \* number of calls that changed the cache
    jret,             \* which client call ran last, and how it ended
    ulog,             \* history: the DEL and ADD records of the calls since the last take-over, uncoalesced
    utaken,           \* history: the same for the map the worker has taken
    spawned           \* history: number of worker threads started

gvars == <<data, operLog, nextPurgeTime, cacheSize, timeouts, resched,
           purgeTimer, purgeTimerC, now, pc, plog, pnow, cpc, seq, ret,
           replaced, closed, mu, askers>>

jvars == <<jdata, timeoutsToAddDel, nextWakeupTime, jtimeouts, worker,
           hasNewMin, hook, wpc, toToAddDel, currNanos, nanoSec,
           remainingNanos, waitUntil, signalled, nanoTime, jcpc, jloc, jseq,
           jret, ulog, utaken, spawned, spawned>>

vars == <<gvars, jvars, limit, pendingRatio, pendingMax>>

\* operLog holds a record whose writer returned needResched
asked == askers # {}

\* run-time panics of the channel operations
PanicClose == "panic: close of closed channel"
PanicSend == "panic: send on closed channel"
Panicked == ret \in {PanicClose, PanicSend}

\* ------------------------------------------------------------- helpers
TimedData(d, t) == [data |-> d, timeout |-> t]
KeyOper(k, o) == [key |-> k, oper |-> o]

Deadline(nowT, timeoutMs) == nowT + timeoutMs * Millisecond

IsSorted(ts) == \A i \in 1 .. Len(ts) - 1 : ts[i].timeout < ts[i + 1].timeout

SeqRemoveAt(s, i) == SubSeq(s, 1, i - 1) \o SubSeq(s, i + 1, Len(s))

SeqInsertAt(s, i, e) == SubSeq(s, 1, i - 1) \o <<e>> \o SubSeq(s, i, Len(s))

pendingLimitOf(size) ==
    IF pendingRatio * size < pendingMax THEN pendingMax ELSE pendingRatio * size

pendingLimit == pendingLimitOf(cacheSize)

\* appendAddOper that asks for a wake only when the head of the ladder
\* changes or the log is over its limit
appendAddOperHeadOnly(key, oTo, nTo) ==
    LET size == IF oTo = 0 THEN cacheSize + 1 ELSE cacheSize
        log1 == IF oTo = 0 THEN operLog
                ELSE Append(operLog, TimedData(KeyOper(key, DEL), oTo))
        log2 == Append(log1, TimedData(KeyOper(key, ADD), nTo))
    IN  [operLog |-> log2, cacheSize |-> size,
         need |-> (oTo = nextPurgeTime
                   \/ Len(log2) > pendingLimitOf(size))]

\* result of appendAddOper: the new log, the new counter, needResched
appendAddOper(key, oTo, nTo) ==
    LET size == IF oTo = 0 THEN cacheSize + 1 ELSE cacheSize
        log1 == IF oTo = 0 THEN operLog
                ELSE Append(operLog, TimedData(KeyOper(key, DEL), oTo))
        log2 == Append(log1, TimedData(KeyOper(key, ADD), nTo))
    IN  [operLog |-> log2, cacheSize |-> size,
         need |-> (oTo = nextPurgeTime \/ nTo < nextPurgeTime
                   \/ Len(log2) > pendingLimitOf(size))]

appendDelOper(k, to) ==
    LET size == cacheSize - 1
        log1 == Append(operLog, TimedData(KeyOper(k, DEL), to))
    IN  [operLog |-> log1, cacheSize |-> size,
         need |-> (to = nextPurgeTime \/ Len(log1) > pendingLimitOf(size))]

Get(k) == IF k \in DOMAIN data THEN data[k].data ELSE Nil

\* Size that reads the timeout manager's counter instead of the map
SizeFromCounter == cacheSize

Size == Cardinality(DOMAIN data)

\* ------------------------------------------------------- client actions
\* Put when timeoutMs <= 0: return at once
PutIgnored(c) ==
    /\ ret' = "Put ignored"
    /\ UNCHANGED <<jvars, askers, mu, closed, limit, pendingRatio, pendingMax, data, operLog, nextPurgeTime, cacheSize, timeouts,
                   resched, purgeTimer, purgeTimerC, now, pc, plog, pnow, cpc,
                   seq, replaced>>

\* Put from Lock() to Unlock(): write the entry, append to the log
PutLocked(c, k, v, timeoutMs) ==
    /\ seq < limit
    /\ Deadline(now, timeoutMs) <= MaxTime
    /\ LET existed == k \in DOMAIN data
           oTo == IF existed THEN data[k].timeout ELSE 0
           nTo == Deadline(now, timeoutMs)
           r == appendAddOper(k, oTo, nTo)
       IN  /\ data' = [x \in DOMAIN data \cup {k} |->
                          IF x = k THEN TimedData(v, nTo) ELSE data[x]]
           /\ operLog' = r.operLog
           /\ cacheSize' = r.cacheSize
           /\ cpc' = [cpc EXCEPT ![c] = IF r.need THEN "notify" ELSE "idle"]
           /\ askers' = IF r.need /\ c \in mu THEN askers \cup {c} ELSE askers
           /\ replaced' = IF existed THEN replaced \cup {k} ELSE replaced \ {k}
    /\ seq' = seq + 1
    /\ ret' = "Put"
    /\ mu' = mu \ {c}
    /\ UNCHANGED <<jvars, closed, limit, pendingRatio, pendingMax, nextPurgeTime, timeouts, resched, purgeTimer,
                   purgeTimerC, now, pc, plog, pnow>>

\* Put without the timeoutMs <= 0 return
PutNoCheck(c, k, timeoutMs) ==
    /\ cpc[c] = "idle"
    /\ PutLocked(c, k, seq + 1, timeoutMs)

\* Put that returns only when timeoutMs < 0
PutZeroOk(c, k, timeoutMs) ==
    /\ cpc[c] = "idle"
    /\ IF timeoutMs < 0 THEN PutIgnored(c)
       ELSE PutLocked(c, k, seq + 1, timeoutMs)

\* Put that leaves the value of an existing entry as it was
PutStale(c, k, timeoutMs) ==
    /\ cpc[c] = "idle"
    /\ IF timeoutMs <= 0 THEN PutIgnored(c)
       ELSE PutLocked(c, k,
                      IF k \in DOMAIN data THEN data[k].data ELSE seq + 1,
                      timeoutMs)

\* Put(k, v, timeoutMs) by client c; v is the next fresh value
Put(c, k, timeoutMs) ==
    /\ cpc[c] = "idle"
    /\ IF timeoutMs <= 0 THEN PutIgnored(c)
       ELSE PutLocked(c, k, seq + 1, timeoutMs)

\* Get from RLock() to the deferred RUnlock()
GetLocked(c, k) ==
    /\ ret' = "Get"
    /\ mu' = mu \ {c}
    /\ cpc' = [cpc EXCEPT ![c] = "idle"]
    /\ UNCHANGED <<jvars, askers, closed, limit, pendingRatio, pendingMax, data, operLog, nextPurgeTime, cacheSize, timeouts,
                   resched, purgeTimer, purgeTimerC, now, pc, plog, pnow,
                   seq, replaced>>

GetCall(c, k) ==
    /\ cpc[c] = "idle"
    /\ GetLocked(c, k)

\* Remove that returns on an absent key without the Unlock
RemoveAbsentNoUnlock(c) ==
    /\ ret' = "Remove absent"
    /\ cpc' = [cpc EXCEPT ![c] = "idle"]
    /\ UNCHANGED <<jvars, askers, mu, closed, limit, pendingRatio, pendingMax, data, operLog, nextPurgeTime, cacheSize,
                   timeouts, resched, purgeTimer, purgeTimerC, now, pc, plog,
                   pnow, seq, replaced>>

\* Remove when the key is absent: Unlock and return at once
RemoveAbsent(c) ==
    /\ ret' = "Remove absent"
    /\ mu' = mu \ {c}
    /\ cpc' = [cpc EXCEPT ![c] = "idle"]
    /\ UNCHANGED <<jvars, askers, closed, limit, pendingRatio, pendingMax, data, operLog, nextPurgeTime, cacheSize, timeouts,
                   resched, purgeTimer, purgeTimerC, now, pc, plog, pnow,
                   seq, replaced>>

\* Remove of an entry with deadline to; newData is the map it leaves
RemoveLocked(c, k, to, newData) ==
    /\ seq < limit
    /\ LET r == appendDelOper(k, to)
       IN  /\ data' = newData
           /\ operLog' = r.operLog
           /\ cacheSize' = r.cacheSize
           /\ cpc' = [cpc EXCEPT ![c] = IF r.need THEN "notify" ELSE "idle"]
           /\ askers' = IF r.need /\ c \in mu THEN askers \cup {c} ELSE askers
    /\ replaced' = replaced \ {k}
    /\ seq' = seq + 1
    /\ ret' = "Remove"
    /\ mu' = mu \ {c}
    /\ UNCHANGED <<jvars, closed, limit, pendingRatio, pendingMax, nextPurgeTime, timeouts, resched, purgeTimer,
                   purgeTimerC, now, pc, plog, pnow>>

\* Remove without the return on an absent key: the zero TimedData is logged
RemoveNoCheck(c, k) ==
    /\ cpc[c] = "idle"
    /\ RemoveLocked(c, k, IF k \in DOMAIN data THEN data[k].timeout ELSE 0,
                    [x \in DOMAIN data \ {k} |-> data[x]])

\* Remove that only logs the DEL and leaves the entry to the purger
RemoveLazy(c, k) ==
    /\ cpc[c] = "idle"
    /\ IF k \notin DOMAIN data THEN RemoveAbsent(c)
       ELSE RemoveLocked(c, k, data[k].timeout, data)

\* Remove that also takes the key out of its bucket of the timeouts list
RemoveEager(c, k) ==
    /\ cpc[c] = "idle"
    /\ IF k \notin DOMAIN data THEN RemoveAbsent(c)
       ELSE /\ seq < limit
            /\ LET r == appendDelOper(k, data[k].timeout)
               IN  /\ operLog' = r.operLog
                   /\ cacheSize' = r.cacheSize
                   /\ cpc' = [cpc EXCEPT ![c] =
                                 IF r.need THEN "notify" ELSE "idle"]
                   /\ askers' = IF r.need /\ c \in mu THEN askers \cup {c} ELSE askers
            /\ data' = [x \in DOMAIN data \ {k} |-> data[x]]
            /\ timeouts' = [i \in 1 .. Len(timeouts) |->
                               [timeouts[i] EXCEPT
                                   !.data = SelectSeq(@, LAMBDA x : x # k)]]
            /\ replaced' = replaced \ {k}
            /\ seq' = seq + 1
            /\ ret' = "Remove"
            /\ mu' = mu \ {c}
            /\ UNCHANGED <<jvars, closed, limit, pendingRatio, pendingMax,
                           nextPurgeTime, resched, purgeTimer, purgeTimerC,
                           now, pc, plog, pnow>>

Remove(c, k) ==
    /\ cpc[c] = "idle"
    /\ IF k \notin DOMAIN data THEN RemoveAbsent(c)
       ELSE RemoveLocked(c, k, data[k].timeout,
                         [x \in DOMAIN data \ {k} |-> data[x]])

\* Size from RLock() to the deferred RUnlock()
SizeLocked(c) ==
    /\ ret' = "Size"
    /\ mu' = mu \ {c}
    /\ cpc' = [cpc EXCEPT ![c] = "idle"]
    /\ UNCHANGED <<jvars, askers, closed, limit, pendingRatio, pendingMax, data, operLog, nextPurgeTime, cacheSize, timeouts,
                   resched, purgeTimer, purgeTimerC, now, pc, plog, pnow,
                   seq, replaced>>

SizeCall(c) ==
    /\ cpc[c] = "idle"
    /\ SizeLocked(c)

\* an unrecovered panic ends the process: every goroutine and the timer of
\* the runtime are gone
Panic(msg) ==
    /\ ret' = msg
    /\ cpc' = [c \in Clients |-> "dead"]
    /\ pc' = "dead"
    /\ purgeTimer' = NoTimer
    /\ UNCHANGED <<jvars, askers, mu, closed, limit, pendingRatio, pendingMax, data, operLog, nextPurgeTime, cacheSize,
                   timeouts, resched, purgeTimerC, now, plog, pnow, seq,
                   replaced>>

\* notifyResched with a blocking send: it waits while a signal is buffered
notifyReschedBlocking(c) ==
    /\ cpc[c] = "notify"
    /\ resched = 0
    /\ resched' = 1
    /\ cpc' = [cpc EXCEPT ![c] = "idle"]
    /\ UNCHANGED <<jvars, askers, mu, closed, limit, pendingRatio, pendingMax,
                   data, operLog, nextPurgeTime, cacheSize, timeouts,
                   purgeTimer, purgeTimerC, now, pc, plog, pnow, seq, ret,
                   replaced>>

\* non-blocking send on the buffered channel, after Unlock; a send on a
\* closed channel panics, also inside a select with a default case
notifyResched(c) ==
    /\ cpc[c] = "notify"
    /\ IF closed
       THEN Panic(PanicSend)
       ELSE /\ resched' = 1
            /\ cpc' = [cpc EXCEPT ![c] = "idle"]
            /\ UNCHANGED <<jvars, askers, mu, closed, limit, pendingRatio, pendingMax, data, operLog, nextPurgeTime,
                           cacheSize, timeouts, purgeTimer, purgeTimerC, now,
                           pc, plog, pnow, seq, ret, replaced>>

\* Cache.Close -> TimeoutManager.Close: stop the timer, close the channel;
\* closing a closed channel panics
Close(c) ==
    /\ cpc[c] = "idle"
    /\ IF closed
       THEN Panic(PanicClose)
       ELSE /\ purgeTimer' = NoTimer
            /\ closed' = TRUE
            /\ ret' = "Close"
            /\ UNCHANGED <<jvars, askers, mu, limit, pendingRatio, pendingMax, data, operLog, nextPurgeTime, cacheSize,
                           timeouts, resched, purgeTimerC, now, pc, plog, pnow,
                           cpc, seq, replaced>>

\* ------------------------------------------- purger: timeouts list helpers
\* sort.Search(len(ts), func(n) { return ts[n].timeout >= t }), 0-based result
RECURSIVE SearchLoop(_, _, _, _)
SearchLoop(ts, t, i, j) ==
    IF i >= j THEN i
    ELSE LET h == (i + j) \div 2
         IN  IF ~(ts[h + 1].timeout >= t)
             THEN SearchLoop(ts, t, h + 1, j)
             ELSE SearchLoop(ts, t, i, h)

Search(ts, t) == SearchLoop(ts, t, 0, Len(ts))

\* i is the 0-based index of the bucket, as in the source
addKeyTimeout(ts, k, i) ==
    [ts EXCEPT ![i + 1].data = Append(@, k)]

\* first position >= 2 of k in keys, or 0
KeyPos(keys, k) ==
    IF \E n \in 2 .. Len(keys) : keys[n] = k
    THEN CHOOSE n \in 2 .. Len(keys) :
             keys[n] = k /\ \A m \in 2 .. n - 1 : keys[m] # k
    ELSE 0

\* delKeyTimeout that drops the whole bucket of the key
delKeyTimeoutBucket(ts, k, i) == SeqRemoveAt(ts, i + 1)

\* delKeyTimeout that keeps a bucket whose last key has gone
delKeyTimeoutKeepEmpty(ts, k, i) ==
    [ts EXCEPT ![i + 1].data = IF k = @[1] THEN Tail(@) ELSE @]

delKeyTimeout(ts, k, i) ==
    LET keys == ts[i + 1].data
        keys1 == IF k = keys[1] THEN Tail(keys)
                 ELSE IF KeyPos(keys, k) # 0
                      THEN SeqRemoveAt(keys, KeyPos(keys, k))
                      ELSE keys
    IN  IF Len(keys1) = 0
        THEN SeqRemoveAt(ts, i + 1)
        ELSE [ts EXCEPT ![i + 1].data = keys1]

\* one iteration of the replay loop
ApplyOper(ts, kot) ==
    LET ko == kot.data
        i == Search(ts, kot.timeout)
    IN  IF i < Len(ts) /\ ts[i + 1].timeout = kot.timeout
        THEN IF ko.oper = DEL THEN delKeyTimeout(ts, ko.key, i)
             ELSE addKeyTimeout(ts, ko.key, i)
        ELSE IF ko.oper = ADD
             THEN addKeyTimeout(
                      SeqInsertAt(ts, i + 1, TimedData(<<>>, kot.timeout)),
                      ko.key, i)
             ELSE ts

RECURSIVE ApplyLog(_, _)
ApplyLog(ts, log) ==
    IF log = <<>> THEN ts
    ELSE ApplyLog(ApplyOper(ts, Head(log)), Tail(log))

SeqToSet(s) == {s[n] : n \in 1 .. Len(s)}

\* the loop of deleteExpiredEntries: [timeouts, data] after it
RECURSIVE ExpireLoop(_, _, _)
ExpireLoop(ts, d, nowT) ==
    IF Len(ts) > 0 /\ ~(nowT < ts[1].timeout)
    THEN ExpireLoop(Tail(ts),
                    [x \in DOMAIN d \ SeqToSet(ts[1].data) |-> d[x]], nowT)
    ELSE [timeouts |-> ts, data |-> d]

deleteExpiredEntries(nowT) ==
    IF Len(timeouts) > 0 /\ nowT >= timeouts[1].timeout
    THEN ExpireLoop(timeouts, data, nowT)
    ELSE [timeouts |-> timeouts, data |-> data]

\* ------------------------------------------------------- purger actions
\* select in purger(): receive from resched or from purgeTimer.C, then the
\* locked part of updateTimeoutsFromPendingList: grab the log
Receive ==
    \/ /\ resched = 1
       /\ resched' = 0
       /\ UNCHANGED purgeTimerC
    \/ /\ purgeTimerC
       /\ purgeTimerC' = FALSE
       /\ UNCHANGED resched

\* updateTimeoutsFromPendingList from Lock() to Unlock(): grab the log
TakeLog ==
    /\ plog' = operLog
    /\ operLog' = <<>>
    /\ askers' = {}
    /\ pc' = "replay"
    /\ mu' = mu \ {"purger"}
    /\ UNCHANGED <<jvars, closed, limit, pendingRatio, pendingMax, data, nextPurgeTime, cacheSize, timeouts, purgeTimer, now,
                   pnow, cpc, seq, ret, replaced>>

purger ==
    /\ pc = "select"
    /\ Receive
    /\ TakeLog

\* updateTimeoutsFromPendingList, the replay loop (purger-private), then
\* the clock read that opens purgeAndResetTimer
updateTimeoutsFromPendingList ==
    /\ pc = "replay"
    /\ timeouts' = ApplyLog(timeouts, plog)
    /\ plog' = <<>>
    /\ pnow' = now
    /\ pc' = "purge"
    /\ UNCHANGED <<jvars, askers, mu, closed, limit, pendingRatio, pendingMax, data, operLog, nextPurgeTime, cacheSize, resched,
                   purgeTimer, purgeTimerC, now, cpc, seq, ret,
                   replaced>>

\* deleteExpiredEntries(now) under the cache lock
Sweep ==
    /\ pc = "purge"
    /\ LET r == deleteExpiredEntries(pnow)
       IN  /\ timeouts' = r.timeouts
           /\ data' = r.data
           /\ replaced' = replaced \cap DOMAIN r.data
    /\ pc' = "rearm"
    /\ mu' = mu \ {"purger"}
    /\ UNCHANGED <<jvars, askers, closed, limit, pendingRatio, pendingMax, operLog, nextPurgeTime, cacheSize, resched, purgeTimer,
                   purgeTimerC, now, plog, pnow, cpc, seq, ret>>

\* purgeAndResetTimer that publishes nextPurgeTime and leaves the timer alone
purgeAndResetTimerNoReset ==
    /\ pc = "rearm"
    /\ nextPurgeTime' = IF Len(timeouts) = 0 THEN MaxInt64
                        ELSE timeouts[1].timeout
    /\ pnow' = 0
    /\ pc' = "select"
    /\ mu' = mu \ {"purger"}
    /\ UNCHANGED <<jvars, askers, closed, limit, pendingRatio, pendingMax, data,
                   operLog, cacheSize, timeouts, resched, purgeTimer,
                   purgeTimerC, now, plog, cpc, seq, ret, replaced>>

\* purgeAndResetTimer steps 2 and 3: stop or reset the timer, then publish
\* nextPurgeTime under the cache lock
purgeAndResetTimer ==
    /\ pc = "rearm"
    /\ purgeTimer' =
          IF Len(timeouts) = 0 THEN NoTimer
          ELSE IF nextPurgeTime # timeouts[1].timeout
               THEN now + (timeouts[1].timeout - pnow)
               ELSE purgeTimer
    /\ nextPurgeTime' = IF Len(timeouts) = 0 THEN MaxInt64
                        ELSE timeouts[1].timeout
    /\ pnow' = 0
    /\ pc' = "select"
    /\ mu' = mu \ {"purger"}
    /\ UNCHANGED <<jvars, askers, closed, limit, pendingRatio, pendingMax, data, operLog, cacheSize, timeouts, resched, purgeTimerC,
                   now, plog, cpc, seq, ret, replaced>>

\* select in purger(): the receive from the closed, drained channel yields
\* ok = false and the loop ends
purgerExit ==
    /\ pc = "select"
    /\ closed
    /\ resched = 0
    /\ pc' = "exited"
    /\ UNCHANGED <<jvars, askers, mu, closed, limit, pendingRatio, pendingMax, data, operLog, nextPurgeTime, cacheSize, timeouts,
                   resched, purgeTimer, purgeTimerC, now, plog, pnow, cpc, seq,
                   ret, replaced>>

\* ------------------------------------------------------------ environment
\* the runtime fires the armed timer once its instant is reached
TimerFire ==
    /\ purgeTimer # NoTimer
    /\ now >= purgeTimer
    /\ purgeTimer' = NoTimer
    /\ purgeTimerC' = TRUE
    /\ UNCHANGED <<jvars, askers, mu, closed, limit, pendingRatio, pendingMax, data, operLog, nextPurgeTime, cacheSize, timeouts, resched,
                   now, pc, plog, pnow, cpc, seq, ret, replaced>>

\* MaxTime bounds the instants of the client calls; the clock runs on
\* while an armed timer is still due
Tick ==
    /\ \/ now < MaxTime
       \/ purgeTimer # NoTimer /\ now < purgeTimer
    /\ now' = now + 1
    /\ UNCHANGED <<jvars, askers, mu, closed, limit, pendingRatio, pendingMax, data, operLog, nextPurgeTime, cacheSize, timeouts, resched,
                   purgeTimer, purgeTimerC, pc, plog, pnow, cpc, seq, ret, replaced>>

\* new ExpireCache(maxIdleMilliSec): no worker thread yet
ExpireCache ==
    /\ jdata = <<>>
    /\ timeoutsToAddDel = <<>>
    /\ nextWakeupTime = MaxLong
    /\ jtimeouts = <<>>
    /\ worker = "null"
    /\ hasNewMin = FALSE
    /\ hook = FALSE
    /\ wpc = "none"
    /\ toToAddDel = <<>>
    /\ currNanos = 0
    /\ nanoSec = 0
    /\ remainingNanos = 0
    /\ waitUntil = 0
    /\ signalled = FALSE
    /\ nanoTime = 0
    /\ jcpc = [c \in Clients |-> "idle"]
    /\ jloc = [c \in Clients |-> <<>>]
    /\ jseq = 0
    /\ jret = "none"
    /\ ulog = <<>>
    /\ utaken = <<>>
    /\ spawned = 0

\* ------------------------------------------------------- specification
\* New(): empty cache, timer created and stopped, purger started
New ==
    /\ data = <<>>
    /\ operLog = <<>>
    /\ nextPurgeTime = MaxInt64
    /\ cacheSize = 0
    /\ timeouts = <<>>
    /\ resched = 0
    /\ purgeTimer = NoTimer
    /\ purgeTimerC = FALSE
    /\ now = 0
    /\ pc = "select"
    /\ plog = <<>>
    /\ pnow = 0
    /\ cpc = [c \in Clients |-> "idle"]
    /\ seq = 0
    /\ ret = "none"
    /\ replaced = {}
    /\ closed = FALSE
    /\ mu = {}
    /\ askers = {}

\* newTimeoutManager(cac, args...): the two limits of the pending log
newTimeoutManager(ratio, max) ==
    /\ pendingRatio = ratio
    /\ pendingMax = max

\* the cache of the checked runs is New(2, 3)
Init == New /\ newTimeoutManager(2, 3) /\ ExpireCache /\ limit = MaxCalls

PurgerNext ==
    \/ purger
    \/ updateTimeoutsFromPendingList
    \/ Sweep
    \/ purgeAndResetTimer

Next ==
    \/ \E c \in Clients, k \in Keys, t \in TimeoutsMs : Put(c, k, t)
    \/ \E c \in Clients, k \in Keys : GetCall(c, k)
    \/ \E c \in Clients, k \in Keys : Remove(c, k)
    \/ \E c \in Clients : SizeCall(c)
    \/ \E c \in Clients : notifyResched(c)
    \/ PurgerNext
    \/ TimerFire
    \/ Tick

Spec == Init /\ [][Next]_vars

\* the goroutines are scheduled, the armed timer fires, the clock advances and
\* a client that has unlocked goes on to notifyResched
Fairness ==
    /\ WF_vars(PurgerNext)
    /\ WF_vars(TimerFire)
    /\ WF_vars(Tick)
    /\ WF_vars(\E c \in Clients : notifyResched(c))

\* the liveness specification runs the same program with fewer client calls
LiveInit == New /\ newTimeoutManager(2, 3) /\ ExpireCache /\ limit = LiveCalls

FairSpec == LiveInit /\ [][Next]_vars /\ Fairness


\* one goroutine using a cache made by New(1, 1): at most PendCalls calls that
\* change the cache
PendCalls == 4

PendInit == New /\ newTimeoutManager(1, 1) /\ ExpireCache /\ limit = PendCalls

PendNext ==
    \/ \E k \in Keys, t \in TimeoutsMs : Put("c1", k, t)
    \/ \E k \in Keys : Remove("c1", k)
    \/ notifyResched("c1")
    \/ PurgerNext
    \/ TimerFire
    \/ Tick

PendSpec == PendInit /\ [][PendNext]_vars

\* the program with Close
CloseNext ==
    \/ Next
    \/ \E c \in Clients : Close(c)
    \/ purgerExit

CloseSpec == LiveInit /\ [][CloseNext]_vars

\* the select of a purger that stays at it with the channel closed and
\* drained is taken
CloseFairness == Fairness /\ WF_vars(purgerExit)

CloseFairSpec == LiveInit /\ [][CloseNext]_vars /\ CloseFairness

\* ------------------------------------------ the program, lock by lock
\* Each call of Lock()/RLock() is a step of its own here: a goroutine
\* stands at the call until the mutex admits it, and holds the mutex from
\* there to the step that ends with Unlock()/RUnlock().
LockCalls == 2
LockMaxTime == 1

\* holders of the write lock
Writers == {h \in mu : h = "purger" \/ cpc[h] = "locked"}

\* calls of Put and Remove that stand at or past Lock()
InFlight == Cardinality({x \in Clients : cpc[x] \in {"Lock", "locked"}})

\* Put (timeoutMs > 0) or Remove reaches c.Lock()
LockCall(c) ==
    /\ cpc[c] = "idle"
    /\ seq + InFlight < limit
    /\ cpc' = [cpc EXCEPT ![c] = "Lock"]
    /\ UNCHANGED <<jvars, askers, mu, closed, limit, pendingRatio, pendingMax, data, operLog, nextPurgeTime, cacheSize,
                   timeouts, resched, purgeTimer, purgeTimerC, now, pc, plog,
                   pnow, seq, ret, replaced>>

\* Get or Size reaches c.RLock()
RLockCall(c) ==
    /\ cpc[c] = "idle"
    /\ cpc' = [cpc EXCEPT ![c] = "RLock"]
    /\ UNCHANGED <<jvars, askers, mu, closed, limit, pendingRatio, pendingMax, data, operLog, nextPurgeTime, cacheSize,
                   timeouts, resched, purgeTimer, purgeTimerC, now, pc, plog,
                   pnow, seq, ret, replaced>>

\* sync.RWMutex.Lock returns: nobody holds the mutex
Lock(c) ==
    /\ cpc[c] = "Lock"
    /\ mu = {}
    /\ mu' = {c}
    /\ cpc' = [cpc EXCEPT ![c] = "locked"]
    /\ UNCHANGED <<jvars, askers, closed, limit, pendingRatio, pendingMax, data, operLog, nextPurgeTime, cacheSize,
                   timeouts, resched, purgeTimer, purgeTimerC, now, pc, plog,
                   pnow, seq, ret, replaced>>

\* an RLock that returns while a writer holds the mutex
RLockNoWait(c) ==
    /\ cpc[c] = "RLock"
    /\ mu' = mu \cup {c}
    /\ cpc' = [cpc EXCEPT ![c] = "rlocked"]
    /\ UNCHANGED <<jvars, askers, closed, limit, pendingRatio, pendingMax,
                   data, operLog, nextPurgeTime, cacheSize, timeouts, resched,
                   purgeTimer, purgeTimerC, now, pc, plog, pnow, seq, ret,
                   replaced>>

\* sync.RWMutex.RLock returns: no writer holds the mutex
RLock(c) ==
    /\ cpc[c] = "RLock"
    /\ Writers = {}
    /\ mu' = mu \cup {c}
    /\ cpc' = [cpc EXCEPT ![c] = "rlocked"]
    /\ UNCHANGED <<jvars, askers, closed, limit, pendingRatio, pendingMax, data, operLog, nextPurgeTime, cacheSize,
                   timeouts, resched, purgeTimer, purgeTimerC, now, pc, plog,
                   pnow, seq, ret, replaced>>

\* the critical sections of the client calls, each ending with its unlock
Locked(c) ==
    \/ /\ cpc[c] = "locked"
       /\ \/ \E k \in Keys, t \in 1 .. MaxTimeoutMs :
                PutLocked(c, k, seq + 1, t)
          \/ \E k \in Keys :
                IF k \notin DOMAIN data THEN RemoveAbsent(c)
                ELSE RemoveLocked(c, k, data[k].timeout,
                                  [x \in DOMAIN data \ {k} |-> data[x]])
    \/ /\ cpc[c] = "rlocked"
       /\ \/ \E k \in Keys : GetLocked(c, k)
          \/ SizeLocked(c)

\* the purger has received from resched or purgeTimer.C and goes to
\* handleResched
purgerSelect ==
    /\ pc = "select"
    /\ Receive
    /\ pc' = "grab"
    /\ UNCHANGED <<jvars, askers, mu, closed, limit, pendingRatio, pendingMax, data, operLog, nextPurgeTime, cacheSize,
                   timeouts, purgeTimer, now, plog, pnow, cpc, seq, ret,
                   replaced>>

\* the purger stands at a c.cache.Lock(): in updateTimeoutsFromPendingList,
\* in deleteExpiredEntries when something has expired, in
\* purgeAndResetTimer
NeedsLock ==
    \/ pc \in {"grab", "rearm"}
    \/ pc = "purge" /\ Len(timeouts) > 0 /\ pnow >= timeouts[1].timeout

\* a purger that enters its critical sections without waiting for the mutex
purgerLockNoWait ==
    /\ NeedsLock
    /\ "purger" \notin mu
    /\ mu' = mu \cup {"purger"}
    /\ UNCHANGED <<jvars, askers, closed, limit, pendingRatio, pendingMax,
                   data, operLog, nextPurgeTime, cacheSize, timeouts, resched,
                   purgeTimer, purgeTimerC, now, pc, plog, pnow, cpc, seq, ret,
                   replaced>>

purgerLock ==
    /\ NeedsLock
    /\ mu = {}
    /\ mu' = {"purger"}
    /\ UNCHANGED <<jvars, askers, closed, limit, pendingRatio, pendingMax, data, operLog, nextPurgeTime, cacheSize,
                   timeouts, resched, purgeTimer, purgeTimerC, now, pc, plog,
                   pnow, cpc, seq, ret, replaced>>

\* the steps of handleResched, the locked ones once the lock is held
purgerLocked ==
    \/ /\ pc = "grab"
       /\ "purger" \in mu
       /\ TakeLog
       /\ UNCHANGED <<jvars, resched, purgeTimerC>>
    \/ updateTimeoutsFromPendingList
    \/ /\ NeedsLock => "purger" \in mu
       /\ Sweep
    \/ /\ "purger" \in mu
       /\ purgeAndResetTimer

\* the clock of this specification stops at LockMaxTime
LockTick == now < LockMaxTime /\ Tick

LockInit == New /\ newTimeoutManager(2, 3) /\ ExpireCache /\ limit = LockCalls

LockNext ==
    \/ \E c \in Clients : LockCall(c)
    \/ \E c \in Clients : RLockCall(c)
    \/ \E c \in Clients : Lock(c)
    \/ \E c \in Clients : RLock(c)
    \/ \E c \in Clients : Locked(c)
    \/ \E c \in Clients : notifyResched(c)
    \/ purgerSelect
    \/ purgerLock
    \/ purgerLocked
    \/ TimerFire
    \/ LockTick

LockSpec == LockInit /\ [][LockNext]_vars

\* the steps of client c between its call and its return
ClientStep(c) == Lock(c) \/ RLock(c) \/ Locked(c) \/ notifyResched(c)

PurgerStep == purgerSelect \/ purgerLock \/ purgerLocked

\* a goroutine that can run does run, and a goroutine that stands at Lock()
\* or RLock() is admitted once the mutex is free often enough (sync.RWMutex
\* does not starve a waiter).  Nothing is assumed of the clock or the timer.
LockFairness ==
    /\ \A c \in Clients : SF_vars(ClientStep(c))
    /\ SF_vars(PurgerStep)

LockFairSpec == LockInit /\ [][LockNext]_vars /\ LockFairness

\* ================================================= the Java cache
\* src/unnamed/part_002.  A step is a critical section under dataLock or
\* wakeupLock, or a stretch of code that touches only what is private to its
\* thread with at most one access to a shared field.
ValueTime(v, t) == [value |-> v, time |-> t]

maxSleepTime == maxIdleMilliSec * Millisecond

MapPut(f, k, v) == [x \in DOMAIN f \cup {k} |-> IF x = k THEN v ELSE f[x]]

MapRemove(f, S) == [x \in DOMAIN f \ S |-> f[x]]

\* appendAddOper that overwrites the pending record of the key
appendAddOperOverwrite(key, otime, ntime) ==
    [pending |-> MapPut(timeoutsToAddDel, key, ValueTime(otime, ntime)),
     need |-> \/ nextWakeupTime = MaxLong
              \/ otime = nextWakeupTime
              \/ ntime < nextWakeupTime]

\* appendAddOper: the new pending map and the result
appendAddOperJ(key, otime, ntime) ==
    [pending |->
        IF key \in DOMAIN timeoutsToAddDel
        THEN LET vt == timeoutsToAddDel[key]
             IN  MapPut(timeoutsToAddDel, key,
                        ValueTime(IF vt.value < 0 THEN vt.time ELSE vt.value,
                                  ntime))
        ELSE MapPut(timeoutsToAddDel, key, ValueTime(otime, ntime)),
     need |-> \/ nextWakeupTime = MaxLong
              \/ otime = nextWakeupTime
              \/ ntime < nextWakeupTime]

\* appendDelOper: the new pending map and the result
appendDelOperJ(key, timeout) ==
    IF key \in DOMAIN timeoutsToAddDel /\ timeoutsToAddDel[key].value = JADD
    THEN [pending |-> MapRemove(timeoutsToAddDel, {key}), need |-> FALSE]
    ELSE [pending |->
             IF key \in DOMAIN timeoutsToAddDel
             THEN LET vt == timeoutsToAddDel[key]
                  IN  IF vt.value > 0
                      THEN MapPut(timeoutsToAddDel, key,
                                  ValueTime(JDEL, vt.value))
                      ELSE MapPut(timeoutsToAddDel, key,
                                  ValueTime(vt.value, timeout))
             ELSE MapPut(timeoutsToAddDel, key, ValueTime(JDEL, timeout)),
          need |-> timeout = nextWakeupTime]

\* calls of put and remove that are under way or done
JInFlight == jseq + Cardinality({x \in Clients : jcpc[x] = "put"})

\* put up to dataWriteLock.lock(): the deadline is computed before the lock
put(c, k, timeoutMs) ==
    /\ jcpc[c] = "idle"
    /\ IF timeoutMs <= 0
       THEN /\ jret' = "put ignored"
            /\ UNCHANGED <<jcpc, jloc>>
       ELSE /\ JInFlight < limit
            /\ nanoTime + timeoutMs * Millisecond <= JMaxTime
            /\ jloc' = [jloc EXCEPT ![c] =
                           [key |-> k,
                            newTO |-> nanoTime + timeoutMs * Millisecond]]
            /\ jcpc' = [jcpc EXCEPT ![c] = "put"]
            /\ UNCHANGED jret
    /\ UNCHANGED <<gvars, limit, pendingRatio, pendingMax, ulog, utaken, spawned, jdata, timeoutsToAddDel, nextWakeupTime,
                   jtimeouts, worker, hasNewMin, hook, wpc, toToAddDel,
                   currNanos, nanoSec, remainingNanos, waitUntil, signalled,
                   nanoTime, jseq>>

\* put from dataWriteLock.lock() to unlock()
putLocked(c) ==
    /\ jcpc[c] = "put"
    /\ LET key == jloc[c].key
           newTO == jloc[c].newTO
           otime == IF key \in DOMAIN jdata THEN jdata[key].time ELSE 0
           r == appendAddOperJ(key, otime, newTO)
       IN  /\ jdata' = MapPut(jdata, key, ValueTime(jseq + 1, newTO))
           /\ timeoutsToAddDel' = r.pending
           /\ jcpc' = [jcpc EXCEPT ![c] = IF r.need THEN "notify" ELSE "idle"]
    /\ ulog' = LET key == jloc[c].key
                   rec == TimedData(KeyOper(key, ADD), jloc[c].newTO)
               IN  IF key \in DOMAIN jdata
                   THEN ulog \o <<TimedData(KeyOper(key, DEL),
                                            jdata[key].time), rec>>
                   ELSE Append(ulog, rec)
    /\ jloc' = [jloc EXCEPT ![c] = <<>>]
    /\ jseq' = jseq + 1
    /\ jret' = "put"
    /\ UNCHANGED <<gvars, limit, pendingRatio, pendingMax, utaken, spawned, nextWakeupTime, jtimeouts, worker, hasNewMin,
                   hook, wpc, toToAddDel, currNanos, nanoSec, remainingNanos,
                   waitUntil, signalled, nanoTime>>

get(c, k) ==
    /\ jcpc[c] = "idle"
    /\ jret' = "get"
    /\ UNCHANGED <<gvars, limit, pendingRatio, pendingMax, ulog, utaken, spawned, jdata, timeoutsToAddDel, nextWakeupTime,
                   jtimeouts, worker, hasNewMin, hook, wpc, toToAddDel,
                   currNanos, nanoSec, remainingNanos, waitUntil, signalled,
                   nanoTime, jcpc, jloc, jseq>>

remove(c, k) ==
    /\ jcpc[c] = "idle"
    /\ IF k \notin DOMAIN jdata
       THEN /\ jret' = "remove absent"
            /\ UNCHANGED <<jdata, timeoutsToAddDel, jcpc, jseq, ulog>>
       ELSE /\ JInFlight < limit
            /\ LET r == appendDelOperJ(k, jdata[k].time)
               IN  /\ timeoutsToAddDel' = r.pending
                   /\ jcpc' = [jcpc EXCEPT ![c] =
                                  IF r.need THEN "notify" ELSE "idle"]
            /\ jdata' = MapRemove(jdata, {k})
            /\ ulog' = Append(ulog, TimedData(KeyOper(k, DEL), jdata[k].time))
            /\ jseq' = jseq + 1
            /\ jret' = "remove"
    /\ UNCHANGED <<gvars, limit, pendingRatio, pendingMax, utaken, spawned, nextWakeupTime, jtimeouts, worker, hasNewMin,
                   hook, wpc, toToAddDel, currNanos, nanoSec, remainingNanos,
                   waitUntil, signalled, nanoTime, jloc>>

size(c) ==
    /\ jcpc[c] = "idle"
    /\ jret' = "size"
    /\ UNCHANGED <<gvars, limit, pendingRatio, pendingMax, ulog, utaken, spawned, jdata, timeoutsToAddDel, nextWakeupTime,
                   jtimeouts, worker, hasNewMin, hook, wpc, toToAddDel,
                   currNanos, nanoSec, remainingNanos, waitUntil, signalled,
                   nanoTime, jcpc, jloc, jseq>>

\* notifyReschedule if addShutdownHook accepted a registered hook
notifyRescheduleAnyHook(c) ==
    /\ jcpc[c] = "notify"
    /\ jcpc' = [jcpc EXCEPT ![c] = "idle"]
    /\ IF worker = "null"
       THEN /\ hook' = TRUE
            /\ worker' = "thread"
            /\ wpc' = "start"
            /\ spawned' = spawned + 1
       ELSE UNCHANGED <<hook, worker, wpc, spawned>>
    /\ hasNewMin' = TRUE
    /\ signalled' = (signalled \/ wpc = "waiting")
    /\ UNCHANGED <<gvars, limit, pendingRatio, pendingMax, ulog, utaken, jdata,
                   timeoutsToAddDel, nextWakeupTime, jtimeouts, toToAddDel,
                   currNanos, nanoSec, remainingNanos, waitUntil, nanoTime,
                   jloc, jseq, jret>>

\* notifyReschedule under wakeupLock; addShutdownHook throws
\* IllegalArgumentException when the hook is registered already
notifyReschedule(c) ==
    /\ jcpc[c] = "notify"
    /\ jcpc' = [jcpc EXCEPT ![c] = "idle"]
    /\ IF worker = "null" /\ hook
       THEN /\ jret' = "IllegalArgumentException"
            /\ UNCHANGED <<worker, hook, wpc, hasNewMin, signalled, spawned>>
       ELSE /\ IF worker = "null"
               THEN /\ hook' = TRUE
                    /\ worker' = "thread"
                    /\ wpc' = "start"
                    /\ spawned' = spawned + 1
               ELSE UNCHANGED <<hook, worker, wpc, spawned>>
            /\ hasNewMin' = TRUE
            /\ signalled' = (signalled \/ wpc = "waiting")
            /\ UNCHANGED jret
    /\ UNCHANGED <<gvars, limit, pendingRatio, pendingMax, ulog, utaken, jdata, timeoutsToAddDel, nextWakeupTime,
                   jtimeouts, toToAddDel, currNanos, nanoSec, remainingNanos,
                   waitUntil, nanoTime, jloc, jseq>>

\* ----------------------------------------- worker: timeouts list helpers
\* 1-based position of the bucket with this time, or 0
findTimeout(ts, kTime) ==
    IF \E i \in 1 .. Len(ts) : ts[i].time = kTime
    THEN CHOOSE i \in 1 .. Len(ts) : ts[i].time = kTime
    ELSE 0

insertTimeout(ts, k, kTime) ==
    LET pos == findTimeout(ts, kTime)
    IN  IF pos = 0
        THEN LET n == Cardinality({i \in 1 .. Len(ts) : ts[i].time < kTime})
             IN  SeqInsertAt(ts, n + 1, ValueTime(<<k>>, kTime))
        ELSE [ts EXCEPT ![pos].value = Append(@, k)]

\* ArrayList.remove(Object): the first occurrence goes, if there is one
ListRemove(keys, k) ==
    IF \E n \in 1 .. Len(keys) : keys[n] = k
    THEN SeqRemoveAt(keys, CHOOSE n \in 1 .. Len(keys) :
                               keys[n] = k /\ \A m \in 1 .. n - 1 : keys[m] # k)
    ELSE keys

\* the deletion of key k at time t in updateAndGetMinTimeout: timeouts.get
\* throws IndexOutOfBoundsException on an empty list and on the negative
\* position binarySearch returns when no bucket has this time
deleteTimeout(ts, k, t) ==
    IF ts = <<>> THEN [timeouts |-> ts, thrown |-> TRUE]
    ELSE LET pos == IF t = ts[1].time THEN 1 ELSE findTimeout(ts, t)
         IN  IF pos = 0 THEN [timeouts |-> ts, thrown |-> TRUE]
             ELSE LET keys == ListRemove(ts[pos].value, k)
                  IN  [timeouts |-> IF Len(keys) = 0 THEN SeqRemoveAt(ts, pos)
                                    ELSE [ts EXCEPT ![pos].value = keys],
                       thrown |-> FALSE]

\* one iteration of the loop over toToAddDel.keySet()
applyOp(ts, k, op) ==
    IF op.value = JADD
    THEN [timeouts |-> insertTimeout(ts, k, op.time), thrown |-> FALSE]
    ELSE IF op.value = JDEL
    THEN deleteTimeout(ts, k, op.time)
    ELSE LET d == deleteTimeout(ts, k, op.value)
         IN  IF d.thrown THEN d
             ELSE [timeouts |-> insertTimeout(d.timeouts, k, op.time),
                   thrown |-> FALSE]

\* the loop, over the keys in the order the HashMap iterates them
RECURSIVE applyAll(_, _, _)
applyAll(ts, ops, order) ==
    IF order = <<>> THEN [timeouts |-> ts, thrown |-> FALSE]
    ELSE LET r == applyOp(ts, Head(order), ops[Head(order)])
         IN  IF r.thrown THEN r
             ELSE applyAll(r.timeouts, ops, Tail(order))

\* the orders a HashMap may iterate the keys S in
Orders(S) ==
    {o \in [1 .. Cardinality(S) -> S] :
        \A i, j \in 1 .. Cardinality(S) : i # j => o[i] # o[j]}

\* ------------------------------------------------------ worker actions
\* run, up to the loop
run ==
    /\ wpc = "start"
    /\ hasNewMin' = TRUE
    /\ remainingNanos' = 0
    /\ wpc' = "top"
    /\ UNCHANGED <<gvars, limit, pendingRatio, pendingMax, ulog, utaken, spawned, jdata, timeoutsToAddDel, nextWakeupTime,
                   jtimeouts, worker, hook, toToAddDel, currNanos, nanoSec,
                   waitUntil, signalled, nanoTime, jcpc, jloc, jseq, jret>>

\* a loop of run without case 3.2: a wake with time remaining is taken for
\* the end of the wait
runTopNoRemaining ==
    /\ wpc = "top"
    /\ IF worker = "null"
       THEN /\ wpc' = "exiting"
            /\ UNCHANGED <<hasNewMin, nanoSec>>
       ELSE IF hasNewMin
       THEN /\ hasNewMin' = FALSE
            /\ wpc' = "grab"
            /\ UNCHANGED nanoSec
       ELSE /\ wpc' = IF jtimeouts = <<>> THEN "idle" ELSE "expire"
            /\ UNCHANGED <<hasNewMin, nanoSec>>
    /\ UNCHANGED <<gvars, limit, pendingRatio, pendingMax, ulog, utaken, spawned, jdata, timeoutsToAddDel, nextWakeupTime,
                   jtimeouts, worker, hook, toToAddDel, currNanos,
                   remainingNanos, waitUntil, signalled, nanoTime, jcpc, jloc,
                   jseq, jret>>

\* the top of the loop of run: which of the cases 3.0 to 3.3 applies
runTop ==
    /\ wpc = "top"
    /\ IF worker = "null"
       THEN /\ wpc' = "exiting"
            /\ UNCHANGED <<hasNewMin, nanoSec>>
       ELSE IF hasNewMin
       THEN /\ hasNewMin' = FALSE
            /\ wpc' = "grab"
            /\ UNCHANGED nanoSec
       ELSE IF remainingNanos > 0
       THEN /\ nanoSec' = remainingNanos
            /\ wpc' = "await"
            /\ UNCHANGED hasNewMin
       ELSE /\ wpc' = IF jtimeouts = <<>> THEN "idle" ELSE "expire"
            /\ UNCHANGED <<hasNewMin, nanoSec>>
    /\ UNCHANGED <<gvars, limit, pendingRatio, pendingMax, ulog, utaken, spawned, jdata, timeoutsToAddDel, nextWakeupTime,
                   jtimeouts, worker, hook, toToAddDel, currNanos,
                   remainingNanos, waitUntil, signalled, nanoTime, jcpc, jloc,
                   jseq, jret>>

\* case 3.3 with no timeouts left: the worker gives up after the idle time
runIdle ==
    /\ wpc = "idle"
    /\ worker' = "null"
    /\ wpc' = "exiting"
    /\ UNCHANGED <<gvars, limit, pendingRatio, pendingMax, ulog, utaken, spawned, jdata, timeoutsToAddDel, nextWakeupTime,
                   jtimeouts, hasNewMin, hook, toToAddDel, currNanos, nanoSec,
                   remainingNanos, waitUntil, signalled, nanoTime, jcpc, jloc,
                   jseq, jret>>

\* the end of run: removeShutdownHook
runExit ==
    /\ wpc = "exiting"
    /\ hook' = FALSE
    /\ wpc' = "none"
    /\ UNCHANGED <<gvars, limit, pendingRatio, pendingMax, ulog, utaken, spawned, jdata, timeoutsToAddDel, nextWakeupTime,
                   jtimeouts, worker, hasNewMin, toToAddDel, currNanos,
                   nanoSec, remainingNanos, waitUntil, signalled, nanoTime,
                   jcpc, jloc, jseq, jret>>

\* case 3.3: the wait timed out; the head of timeouts goes and its keys are
\* removed from data under dataLock
runExpire ==
    /\ wpc = "expire"
    /\ jdata' = MapRemove(jdata, SeqToSet(jtimeouts[1].value))
    /\ jtimeouts' = Tail(jtimeouts)
    /\ wpc' = "grab"
    /\ UNCHANGED <<gvars, limit, pendingRatio, pendingMax, ulog, utaken, spawned, timeoutsToAddDel, nextWakeupTime, worker,
                   hasNewMin, hook, toToAddDel, currNanos, nanoSec,
                   remainingNanos, waitUntil, signalled, nanoTime, jcpc, jloc,
                   jseq, jret>>

\* updateAndGetMinTimeout under dataLock: take the pending map
updateGrab ==
    /\ wpc = "grab"
    /\ toToAddDel' = timeoutsToAddDel
    /\ timeoutsToAddDel' = <<>>
    /\ utaken' = ulog
    /\ ulog' = <<>>
    /\ wpc' = "apply"
    /\ UNCHANGED <<gvars, limit, pendingRatio, pendingMax, spawned, jdata, nextWakeupTime, jtimeouts, worker,
                   hasNewMin, hook, currNanos, nanoSec, remainingNanos,
                   waitUntil, signalled, nanoTime, jcpc, jloc, jseq, jret>>

\* updateAndGetMinTimeout: apply the taken operations, then read the clock;
\* an exception ends the thread and leaves the field worker as it is
updateApply ==
    /\ wpc = "apply"
    /\ \E order \in Orders(DOMAIN toToAddDel) :
          LET r == applyAll(jtimeouts, toToAddDel, order)
          IN  /\ jtimeouts' = r.timeouts
              /\ wpc' = IF r.thrown THEN "thrown" ELSE "sweep"
              /\ currNanos' = IF ~r.thrown /\ r.timeouts # <<>>
                              THEN nanoTime ELSE currNanos
    /\ toToAddDel' = <<>>
    /\ utaken' = <<>>
    /\ UNCHANGED <<gvars, limit, pendingRatio, pendingMax, ulog, spawned, jdata, timeoutsToAddDel, nextWakeupTime,
                   worker, hasNewMin, hook, nanoSec, remainingNanos,
                   waitUntil, signalled, nanoTime, jcpc, jloc, jseq, jret>>

\* updateAndGetMinTimeout, the loop over the head of timeouts: an expired
\* head is removed with its keys (under dataLock); otherwise nextWakeupTime
\* is published and the time to wait returned
updateSweep ==
    /\ wpc = "sweep"
    /\ IF jtimeouts # <<>> /\ jtimeouts[1].time <= currNanos
       THEN /\ jdata' = MapRemove(jdata, SeqToSet(jtimeouts[1].value))
            /\ jtimeouts' = Tail(jtimeouts)
            /\ UNCHANGED <<nextWakeupTime, nanoSec, wpc>>
       ELSE /\ nextWakeupTime' =
                  IF jtimeouts # <<>> THEN jtimeouts[1].time ELSE MaxLong
            /\ nanoSec' = IF jtimeouts # <<>>
                          THEN jtimeouts[1].time - currNanos
                          ELSE maxSleepTime
            /\ wpc' = "await"
            /\ UNCHANGED <<jdata, jtimeouts>>
    /\ UNCHANGED <<gvars, limit, pendingRatio, pendingMax, ulog, utaken, spawned, timeoutsToAddDel, worker, hasNewMin, hook,
                   toToAddDel, currNanos, remainingNanos, waitUntil,
                   signalled, nanoTime, jcpc, jloc, jseq, jret>>

\* await under wakeupLock: return 0 at once, or start to wait
await ==
    /\ wpc = "await"
    /\ IF hasNewMin \/ worker = "null"
       THEN /\ remainingNanos' = 0
            /\ wpc' = "top"
            /\ UNCHANGED <<waitUntil, signalled>>
       ELSE /\ waitUntil' = nanoTime + nanoSec
            /\ signalled' = FALSE
            /\ wpc' = "waiting"
            /\ UNCHANGED remainingNanos
    /\ nanoSec' = 0
    /\ UNCHANGED <<gvars, limit, pendingRatio, pendingMax, ulog, utaken, spawned, jdata, timeoutsToAddDel, nextWakeupTime,
                   jtimeouts, worker, hasNewMin, hook, toToAddDel, currNanos,
                   nanoTime, jcpc, jloc, jseq, jret>>

\* awaitNanos returns what is left of the time to wait
awaitReturn ==
    /\ wpc = "waiting"
    /\ remainingNanos' = waitUntil - nanoTime
    /\ waitUntil' = 0
    /\ signalled' = FALSE
    /\ wpc' = "top"
    /\ UNCHANGED <<gvars, limit, pendingRatio, pendingMax, ulog, utaken, spawned, jdata, timeoutsToAddDel, nextWakeupTime,
                   jtimeouts, worker, hasNewMin, hook, toToAddDel, currNanos,
                   nanoSec, nanoTime, jcpc, jloc, jseq, jret>>

\* the three ways awaitNanos ends: signalAll, the time is up, or a spurious
\* wakeup
awaitSignalled == signalled /\ awaitReturn

awaitTimedOut == nanoTime >= waitUntil /\ awaitReturn

awaitSpurious == ~signalled /\ nanoTime < waitUntil /\ awaitReturn

JTick ==
    /\ nanoTime < JMaxTime
    /\ nanoTime' = nanoTime + 1
    /\ UNCHANGED <<gvars, limit, pendingRatio, pendingMax, ulog, utaken, spawned, jdata, timeoutsToAddDel, nextWakeupTime,
                   jtimeouts, worker, hasNewMin, hook, wpc, toToAddDel,
                   currNanos, nanoSec, remainingNanos, waitUntil, signalled,
                   jcpc, jloc, jseq, jret>>

JInit == New /\ newTimeoutManager(2, 3) /\ ExpireCache /\ limit = JCalls

WorkerNext ==
    \/ run
    \/ runTop
    \/ runIdle
    \/ runExit
    \/ runExpire
    \/ updateGrab
    \/ updateApply
    \/ updateSweep
    \/ await
    \/ awaitSignalled
    \/ awaitTimedOut
    \/ awaitSpurious

JNext ==
    \/ \E c \in Clients, k \in Keys, t \in TimeoutsMs : put(c, k, t)
    \/ \E c \in Clients : putLocked(c)
    \/ \E c \in Clients, k \in Keys : get(c, k)
    \/ \E c \in Clients, k \in Keys : remove(c, k)
    \/ \E c \in Clients : size(c)
    \/ \E c \in Clients : notifyReschedule(c)
    \/ WorkerNext
    \/ JTick

JSpec == JInit /\ [][JNext]_vars

\* ------------------------------------------- the program with shutdown
\* TimeoutManager.shutdown under wakeupLock, from any thread (ExpireCache.
\* shutdown, finalize, the shutdown hook): the worker is told to exit
shutdown ==
    /\ IF worker # "null"
       THEN /\ worker' = "null"
            /\ signalled' = (signalled \/ wpc = "waiting")
       ELSE UNCHANGED <<worker, signalled>>
    /\ jret' = "shutdown"
    /\ UNCHANGED <<gvars, limit, pendingRatio, pendingMax, ulog, utaken, spawned, jdata,
                   timeoutsToAddDel, nextWakeupTime, jtimeouts, hasNewMin,
                   hook, wpc, toToAddDel, currNanos, nanoSec, remainingNanos,
                   waitUntil, nanoTime, jcpc, jloc, jseq>>

ShutNext ==
    \/ JNext
    \/ shutdown

ShutSpec == JInit /\ [][ShutNext]_vars

\* ------------------------------------- one client thread, three calls
SoloCalls == 3

SoloInit == New /\ newTimeoutManager(2, 3) /\ ExpireCache /\ limit = SoloCalls

SoloNext ==
    \/ \E k \in Keys, t \in TimeoutsMs : put("c1", k, t)
    \/ putLocked("c1")
    \/ \E k \in Keys : get("c1", k)
    \/ \E k \in Keys : remove("c1", k)
    \/ size("c1")
    \/ notifyReschedule("c1")
    \/ WorkerNext
    \/ JTick

SoloSpec == SoloInit /\ [][SoloNext]_vars

\* ------------------------------------------ Put with the clock at 64 bits
\* an int64 is the sequence of its bytes in two's complement, lowest first
Int64Bytes == 8
ByteBase == 256
\* int64(time.Millisecond), (long) 1e6: nanoseconds in a millisecond
NanosPerMilli == 1000000
WideCalls == 2

\* the number v, 0 <= v < 256, on n bytes
Bytes(v, n) == [i \in 1 .. n |-> IF i = 1 THEN v ELSE 0]

\* a + b on the bytes of a, the carry out of the highest byte dropped
RECURSIVE AddFrom(_, _, _, _)
AddFrom(a, b, i, carry) ==
    IF i > Len(a) THEN <<>>
    ELSE LET s == a[i] + b[i] + carry
         IN  <<s % ByteBase>> \o AddFrom(a, b, i + 1, s \div ByteBase)

AddWide(a, b) == AddFrom(a, b, 1, 0)

\* a * m for 0 <= m on the bytes of a, what exceeds the highest byte dropped
RECURSIVE MulFrom(_, _, _, _)
MulFrom(a, m, i, carry) ==
    IF i > Len(a) THEN <<>>
    ELSE LET s == a[i] * m + carry
         IN  <<s % ByteBase>> \o MulFrom(a, m, i + 1, s \div ByteBase)

MulWide(a, m) == MulFrom(a, m, 1, 0)

\* the number written with the decimal digits ds, on n bytes
RECURSIVE Decimal(_, _)
Decimal(ds, n) ==
    IF ds = <<>> THEN Bytes(0, n)
    ELSE AddWide(MulWide(Decimal(SubSeq(ds, 1, Len(ds) - 1), n), 10),
                 Bytes(ds[Len(ds)], n))

IsNegative(a) == a[Len(a)] >= ByteBase \div 2

\* sign extension of a to n bytes
Extend(a, n) ==
    [i \in 1 .. n |-> IF i <= Len(a) THEN a[i]
                      ELSE IF IsNegative(a) THEN ByteBase - 1 ELSE 0]

\* a < b as unsigned numbers, compared from byte i down
RECURSIVE BelowFrom(_, _, _)
BelowFrom(a, b, i) ==
    IF i = 0 THEN FALSE
    ELSE IF a[i] # b[i] THEN a[i] < b[i]
    ELSE BelowFrom(a, b, i - 1)

\* a < b as signed numbers
LessWide(a, b) ==
    IF IsNegative(a) # IsNegative(b) THEN IsNegative(a)
    ELSE BelowFrom(a, b, Len(a))

Int64(ds) == Decimal(ds, Int64Bytes)
Zero64 == Bytes(0, Int64Bytes)
\* math.MaxInt64, Long.MAX_VALUE
MaxInt64Wide ==
    [i \in 1 .. Int64Bytes |->
        IF i = Int64Bytes THEN ByteBase \div 2 - 1 ELSE ByteBase - 1]

\* time.Now().UnixNano() + timeoutMs*int64(time.Millisecond) in int64
DeadlineWide(nowT, timeoutMs) ==
    AddWide(nowT, MulWide(timeoutMs, NanosPerMilli))

\* now + timeoutMs x 1,000,000 as a number, on 12 bytes: no byte is dropped
DeadlineExact(nowT, timeoutMs) ==
    AddWide(Extend(nowT, Int64Bytes + 4),
            MulWide(Extend(timeoutMs, Int64Bytes + 4), NanosPerMilli))

\* readings of the clock: System.nanoTime() soon after its origin, and
\* time.Now().UnixNano() in November 2025
NowSamples ==
    {Int64(<<1>>), Int64(<<5, 5, 1, 6, 1, 6>>), Int64(<<7, 7, 5, 8, 0, 7>>),
     Int64(<<1, 7, 6, 2, 3, 0, 0, 0, 0, 0, 0, 0, 0, 0, 0, 0, 0, 0, 0>>)}

\* the timeoutMs of the calls: 0, 1, 1000, 9223372036854 (the largest whose
\* product with 1,000,000 is an int64), 9223372036855, 18446744073709 and
\* MaxInt64
TimeoutSamples ==
    {Zero64, Int64(<<1>>), Int64(<<1, 0, 0, 0>>),
     Int64(<<9, 2, 2, 3, 3, 7, 2, 0, 3, 6, 8, 5, 4>>),
     Int64(<<9, 2, 2, 3, 3, 7, 2, 0, 3, 6, 8, 5, 5>>),
     Int64(<<1, 8, 4, 4, 6, 7, 4, 4, 0, 7, 3, 7, 0, 9>>),
     MaxInt64Wide}

\* appendAddOper on int64 deadlines
appendAddOperWide(key, oTo, nTo) ==
    LET newSize == IF oTo = Zero64 THEN cacheSize + 1 ELSE cacheSize
        log1 == IF oTo = Zero64 THEN operLog
                ELSE Append(operLog, TimedData(KeyOper(key, DEL), oTo))
        log2 == Append(log1, TimedData(KeyOper(key, ADD), nTo))
    IN  [operLog |-> log2, cacheSize |-> newSize,
         need |-> (oTo = nextPurgeTime \/ LessWide(nTo, nextPurgeTime)
                   \/ Len(log2) > pendingLimitOf(newSize))]

\* Put with timeoutMs and the clock as int64
PutWide(c, k, timeoutMs) ==
    /\ cpc[c] = "idle"
    /\ IF timeoutMs = Zero64 \/ IsNegative(timeoutMs)
       THEN PutIgnored(c)
       ELSE /\ seq < limit
            /\ LET existed == k \in DOMAIN data
                   oTo == IF existed THEN data[k].timeout ELSE Zero64
                   nTo == DeadlineWide(now, timeoutMs)
                   r == appendAddOperWide(k, oTo, nTo)
               IN  /\ data' = [x \in DOMAIN data \cup {k} |->
                                  IF x = k THEN TimedData(seq + 1, nTo)
                                  ELSE data[x]]
                   /\ operLog' = r.operLog
                   /\ cacheSize' = r.cacheSize
                   /\ cpc' = [cpc EXCEPT ![c] =
                                 IF r.need THEN "notify" ELSE "idle"]
                   /\ askers' = IF r.need /\ c \in mu THEN askers \cup {c} ELSE askers
                   /\ replaced' = IF existed THEN replaced \cup {k}
                                  ELSE replaced \ {k}
            /\ seq' = seq + 1
            /\ ret' = "Put"
            /\ UNCHANGED <<jvars, mu, closed, limit, pendingRatio, pendingMax,
                           nextPurgeTime, timeouts, resched, purgeTimer,
                           purgeTimerC, now, pc, plog, pnow>>

\* New(2, 3) with the clock at any of the readings; the purger does not run
WideInit ==
    /\ data = <<>>
    /\ operLog = <<>>
    /\ nextPurgeTime = MaxInt64Wide
    /\ cacheSize = 0
    /\ timeouts = <<>>
    /\ resched = 0
    /\ purgeTimer = NoTimer
    /\ purgeTimerC = FALSE
    /\ now \in NowSamples
    /\ pc = "select"
    /\ plog = <<>>
    /\ pnow = 0
    /\ cpc = [c \in Clients |-> "idle"]
    /\ seq = 0
    /\ ret = "none"
    /\ replaced = {}
    /\ closed = FALSE
    /\ mu = {}
    /\ askers = {}
    /\ newTimeoutManager(2, 3)
    /\ ExpireCache
    /\ limit = WideCalls

WideNext ==
    \/ \E c \in Clients, k \in Keys, t \in TimeoutSamples : PutWide(c, k, t)
    \/ \E c \in Clients : notifyResched(c)

WideSpec == WideInit /\ [][WideNext]_vars

\* ---------------------------------- appendAddOper and appendDelOper alone
\* the two methods called with any key, any old deadline (0: no entry
\* existed) and any new deadline, on the pending map the calls before left
CoalMaxTime == 3

CoalTimes == 1 .. CoalMaxTime

callAppendAddOper(key, otime, ntime) ==
    /\ timeoutsToAddDel' = appendAddOperJ(key, otime, ntime).pending
    /\ jret' = "appendAddOper"
    /\ UNCHANGED <<gvars, limit, pendingRatio, pendingMax, ulog, utaken, spawned, jdata,
                   nextWakeupTime, jtimeouts, worker, hasNewMin, hook, wpc,
                   toToAddDel, currNanos, nanoSec, remainingNanos, waitUntil,
                   signalled, nanoTime, jcpc, jloc, jseq>>

callAppendDelOper(key, timeout) ==
    /\ timeoutsToAddDel' = appendDelOperJ(key, timeout).pending
    /\ jret' = "appendDelOper"
    /\ UNCHANGED <<gvars, limit, pendingRatio, pendingMax, ulog, utaken, spawned, jdata,
                   nextWakeupTime, jtimeouts, worker, hasNewMin, hook, wpc,
                   toToAddDel, currNanos, nanoSec, remainingNanos, waitUntil,
                   signalled, nanoTime, jcpc, jloc, jseq>>

CoalNext ==
    \/ \E k \in Keys, o \in {0} \cup CoalTimes, n \in CoalTimes :
          callAppendAddOper(k, o, n)
    \/ \E k \in Keys, t \in CoalTimes : callAppendDelOper(k, t)

CoalSpec == JInit /\ [][CoalNext]_vars

JTypeOK ==
    /\ DOMAIN jdata \subseteq Keys
    /\ DOMAIN timeoutsToAddDel \subseteq Keys
    /\ worker \in {"null", "thread"}
    /\ wpc \in {"none", "start", "top", "idle", "exiting", "expire", "grab",
                "apply", "sweep", "await", "waiting", "thrown"}
    /\ \A i \in 1 .. Len(jtimeouts) - 1 :
          jtimeouts[i].time < jtimeouts[i + 1].time
    /\ \A i \in 1 .. Len(jtimeouts) : Len(jtimeouts[i].value) > 0
    /\ nanoTime \in 0 .. JMaxTime

\* --------------------------------------------------------------- sanity
TypeOK ==
    /\ DOMAIN data \subseteq Keys
    /\ \A k \in DOMAIN data :
          data[k].data \in 1 .. MaxCalls /\ data[k].timeout \in 1 .. MaxTime
    /\ resched \in {0, 1}
    /\ purgeTimerC \in BOOLEAN
    /\ pc \in {"select", "grab", "replay", "purge", "rearm", "exited", "dead"}
    /\ now \in 0 .. 2 * MaxTime
    /\ IsSorted(timeouts)
    /\ \A i \in 1 .. Len(timeouts) : Len(timeouts[i].data) > 0

\* --------------------------------------------------------------- claims

\* C1: eventual eviction.  Every entry written by a Put with a positive
\* timeout eventually stops being returned by Get unless a later Put or
\* Remove on the key intervenes (values are unique per Put, so "Get(k) # v"
\* is "absent, or replaced by a later Put"), under a fair purger, timer and
\* clock, also when no client call follows the Put.
EventualEviction ==
    \A k \in Keys, v \in 1 .. MaxCalls : (Get(k) = v) ~> (Get(k) # v)

\* a client call that writes key k
Touches(k) ==
    \/ \E c \in Clients : Remove(c, k)
    \/ \E c \in Clients, t \in TimeoutsMs : Put(c, k, t)

\* C2: no premature eviction.  What Get(k) returns changes only by a Put or
\* a Remove on k, or once the deadline of k's entry has elapsed.
NoPrematureEviction ==
    [][\A k \in DOMAIN data :
          Get(k)' # Get(k) => Touches(k) \/ data[k].timeout <= now]_vars

\* C3: replace correctness.  An entry written by a Put over an existing
\* entry stays visible until its own (second) deadline has elapsed, unless a
\* later Put or Remove on the key intervenes.
ReplaceCorrectness ==
    [][\A k \in replaced :
          Get(k)' # Get(k) => Touches(k) \/ data[k].timeout <= now]_vars

\* C7: ordered expiration.  The purger never evicts k2 while leaving in the
\* cache a key k1 that was put before k2 (smaller value) with an earlier
\* deadline.
OrderedExpiration ==
    [][Sweep =>
          \A k2 \in DOMAIN data \ DOMAIN data', k1 \in DOMAIN data' :
              ~(data[k1].data < data[k2].data
                /\ data[k1].timeout < data[k2].timeout)]_vars

\* C4: a Put with timeoutMs <= 0 changes nothing: the store (hence Size and
\* every Get), the pending log, the counter, the ladder, nextPurgeTime and
\* the timer are as before, no signal is sent to the purger and no
\* notification is left pending.
PutNonPositiveNoOp ==
    [][\A c \in Clients, k \in Keys, t \in TimeoutsMs :
          t <= 0 /\ Put(c, k, t) =>
              /\ UNCHANGED <<data, operLog, cacheSize, timeouts,
                             nextPurgeTime, resched, cpc, purgeTimer,
                             purgeTimerC>>
              /\ Size' = Size
              /\ Get(k)' = Get(k)]_vars

PutNonPositiveSeen ==
    /\ ret = "Put ignored"
    /\ DOMAIN data # {}
    /\ operLog # <<>>

\* C5: a Remove of an absent key changes nothing: the store, the pending
\* log, the live-entry counter, the ladder and nextPurgeTime are as before
\* and no signal is sent to the purger.
RemoveAbsentNoOp ==
    [][\A c \in Clients, k \in Keys :
          k \notin DOMAIN data /\ Remove(c, k) =>
              UNCHANGED <<data, operLog, cacheSize, timeouts, nextPurgeTime,
                          resched, cpc, purgeTimer, purgeTimerC>>]_vars

RemoveAbsentSeen ==
    /\ ret = "Remove absent"
    /\ DOMAIN data # {}
    /\ operLog # <<>>

\* C6: a Get never observes an older value.  Values are numbered in the
\* order of the Puts: a Put with a positive timeout makes Get return its own
\* (the newest) value at once, and whenever the value Get returns for a key
\* changes to another value, that value is newer than every value stored
\* before.
GetNeverOlder ==
    [][/\ \A c \in Clients, k \in Keys, t \in TimeoutsMs :
             t > 0 /\ Put(c, k, t) => Get(k)' = seq + 1
       /\ \A k \in Keys :
             Get(k)' # Nil /\ Get(k)' # Get(k) => Get(k)' > seq]_vars

GetAfterReplaceSeen ==
    /\ ret = "Get"
    /\ \E k \in replaced : Get(k) = seq /\ seq >= 2
    /\ pc # "select"

\* C8: a Remove of a present key makes Get(k) absent in the same step,
\* before the purger has replayed anything (the ladder and the purger's
\* position are untouched), and every other key keeps its presence, value
\* and deadline.
RemovePresentFrame ==
    [][\A c \in Clients, k \in Keys :
          k \in DOMAIN data /\ Remove(c, k) =>
              /\ Get(k)' = Nil
              /\ UNCHANGED <<timeouts, pc, plog>>
              /\ \A j \in Keys \ {k} :
                    /\ j \in DOMAIN data' <=> j \in DOMAIN data
                    /\ j \in DOMAIN data => data'[j] = data[j]]_vars

RemovePresentSeen ==
    /\ ret = "Remove"
    /\ Size = 1
    /\ \E i \in 1 .. Len(operLog) : operLog[i].data.oper = DEL

\* keys that Get returns a value for
Live == {k \in Keys : Get(k) # Nil}

\* C9: Size is the live entry count: it equals the number of keys Get
\* returns a value for; a Put with positive timeout adds one for a new key
\* and nothing for an existing key, a Remove of a present key takes one
\* off, and the purger's sweep takes one off per evicted key.
SizeIsLiveCount ==
    [][/\ Size' = Cardinality(Live')
       /\ \A c \in Clients, k \in Keys, t \in TimeoutsMs :
             t > 0 /\ Put(c, k, t) =>
                 Size' = IF Get(k) = Nil THEN Size + 1 ELSE Size
       /\ \A c \in Clients, k \in Keys :
             Get(k) # Nil /\ Remove(c, k) => Size' = Size - 1
       /\ Sweep => Size' = Size - Cardinality(Live \ Live')]_vars

SizeAfterEvictionSeen ==
    /\ ret = "Size"
    /\ Size = 1
    /\ cacheSize = 2
    /\ replaced # {}

\* C10: eviction is monotone: a key that Get reports absent becomes present
\* again only by a Put on that key with a positive timeout; no purger,
\* timer or clock step and no other client call re-creates an entry.
EvictionMonotone ==
    [][\A k \in Keys :
          Get(k) = Nil /\ Get(k)' # Nil =>
              \E c \in Clients, t \in TimeoutsMs : t > 0 /\ Put(c, k, t)]_vars

AbsentAfterEvictionSeen ==
    /\ ret = "Get"
    /\ cacheSize > Size
    /\ \E k \in Keys : Get(k) = Nil
    /\ pc = "replay"

\* C11: Close is idempotent.  A Close called when the channel is already
\* closed (after, or racing with, the first Close) returns normally and
\* changes nothing.
CloseIdempotent ==
    [][\A c \in Clients :
          closed /\ Close(c) =>
              /\ ret' = "Close"
              /\ UNCHANGED <<closed, data, operLog, nextPurgeTime, cacheSize,
                             timeouts, resched, pc, cpc>>]_vars

\* C12: use after close never crashes.  Once the cache is closed no Put or
\* Remove ends in the panic of a send on the closed signal channel.
UseAfterCloseNoCrash ==
    closed => ret # PanicSend

\* the purger is between cycles; neither a signal nor a timer expiry is
\* waiting for it
Parked == pc = "select" /\ resched = 0 /\ ~purgeTimerC

\* C13: after Close the purger finishes at most the cycle in flight and the
\* signal already buffered, and then exits.  So once the channel is closed
\* and the purger is parked with nothing buffered, nothing is left that
\* starts another cycle: no timer is armed.
PurgerStopsAfterClose ==
    closed /\ Parked => purgeTimer = NoTimer

\* the parts of C13 that hold: under fair scheduling the purger exits after
\* Close (or the process has ended), and once it has exited it replays
\* nothing, evicts nothing and re-arms no timer
PurgerExitsAfterClose ==
    closed ~> pc \in {"exited", "dead"}

PurgerQuietAfterExit ==
    [][pc = "exited" =>
          /\ pc' \in {"exited", "dead"}
          /\ UNCHANGED <<timeouts, nextPurgeTime, plog>>
          /\ purgeTimer' \in {purgeTimer, NoTimer}
          /\ \A k \in Keys : Get(k)' # Get(k) => Touches(k)]_vars

\* C14: no deadlock under parallel access.  With the clients calling Put,
\* Get and Remove (and Size) while the purger runs, every call that was
\* invoked returns: a client that stands at Lock() or RLock(), holds the
\* lock, or has a notifyResched due is eventually idle again.
NoDeadlock ==
    \A c \in Clients : (cpc[c] # "idle") ~> (cpc[c] = "idle")

\* c1 stands at Lock() and c2 at RLock() while the purger holds the lock
\* for the sweep of an expired entry
LockContendedSeen ==
    /\ cpc["c1"] = "Lock"
    /\ cpc["c2"] = "RLock"
    /\ "purger" \in mu
    /\ pc = "purge"
    /\ Size = 1

\* constants of the bound, from pendingRatio and pendingMax alone: the log
\* holds at most pendingLimitOf(live) records, and a bucket of the ladder
\* holds a live key or a key whose DEL is still in the log
AuxC1 == 2 * pendingRatio + 1
AuxC2 == 2 * pendingMax

\* C15: bounded auxiliary state.  Whenever the purger is parked with no
\* signal pending, the ladder and the pending log together hold at most
\* AuxC1 * |live entries| + AuxC2 items, and the log size the clients are
\* allowed before they signal is the one of the live entries: entries that
\* expired or were removed earlier do not enlarge it.
AuxStateBounded ==
    Parked =>
        /\ Len(timeouts) + Len(operLog) <= AuxC1 * Size + AuxC2
        /\ pendingLimit <= pendingLimitOf(Size)

\* C16: no missed wake.  Whenever the purger is parked, no signal is
\* buffered and no client has a notifyResched due, the purger waits on an
\* armed timer whose target nextPurgeTime is no later than the deadline of
\* any live entry, also of an entry whose ADD was logged after the purger
\* took the log and before it published nextPurgeTime.
NoMissedWake ==
    Parked /\ (\A c \in Clients : cpc[c] = "idle") =>
        \A k \in DOMAIN data :
            purgeTimer # NoTimer /\ nextPurgeTime <= data[k].timeout

\* C17: sweep guard.  A sweep deletes the entry of a key from the store only
\* if the key is listed in an expired bucket of the ladder whose deadline is
\* the current deadline of that entry; an entry that was replaced with
\* another deadline stays in the store.
SweepGuard ==
    [][Sweep =>
          \A k \in DOMAIN data \ DOMAIN data' :
              \E i \in 1 .. Len(timeouts) :
                  /\ timeouts[i].timeout <= pnow
                  /\ k \in SeqToSet(timeouts[i].data)
                  /\ data[k].timeout = timeouts[i].timeout]_vars

\* C18: rescheduling on a new minimum (Java cache).  A put whose new
\* deadline is earlier than nextWakeupTime, and a put over an entry or a
\* remove of an entry whose old deadline equals nextWakeupTime, report
\* needResched; the notifyReschedule that follows signals the worker
\* (hasNewMin set, a worker thread there, a waiting worker woken); the worker
\* gets through the pending operations while a signal waits for it, and
\* publishes as its wait target the earliest deadline left in timeouts.
ReschedOnNewMin ==
    [][/\ \A c \in Clients :
             /\ putLocked(c)
             /\ \/ jloc[c].newTO < nextWakeupTime
                \/ /\ jloc[c].key \in DOMAIN jdata
                   /\ jdata[jloc[c].key].time = nextWakeupTime
             => jcpc'[c] = "notify"
       /\ \A c \in Clients, k \in Keys :
             /\ remove(c, k)
             /\ k \in DOMAIN jdata
             /\ jdata[k].time = nextWakeupTime
             => jcpc'[c] = "notify"
       /\ \A c \in Clients :
             notifyReschedule(c) =>
                 /\ hasNewMin'
                 /\ worker' = "thread"
                 /\ wpc = "waiting" => signalled'
       /\ updateApply /\ hasNewMin => wpc' = "sweep"
       /\ updateSweep /\ wpc' = "await" =>
             nextWakeupTime' = IF jtimeouts = <<>> THEN MaxLong
                               ELSE jtimeouts[1].time]_vars

\* the same statement for the Go cache, where it holds: the three cases
\* report needResched, notifyResched leaves a signal in the channel, and
\* the purger parks on the head of the ladder with the timer armed or fired
ReschedOnNewMinGo ==
    [][/\ \A c \in Clients, k \in Keys, t \in TimeoutsMs :
             /\ t > 0
             /\ Put(c, k, t)
             /\ \/ Deadline(now, t) < nextPurgeTime
                \/ k \in DOMAIN data /\ data[k].timeout = nextPurgeTime
             => cpc'[c] = "notify"
       /\ \A c \in Clients, k \in Keys :
             /\ Remove(c, k)
             /\ k \in DOMAIN data
             /\ data[k].timeout = nextPurgeTime
             => cpc'[c] = "notify"
       /\ \A c \in Clients : notifyResched(c) => resched' = 1
       /\ purgeAndResetTimer =>
             /\ nextPurgeTime' = IF timeouts = <<>> THEN MaxInt64
                                 ELSE timeouts[1].timeout
             /\ timeouts # <<>> => purgeTimer' # NoTimer \/ purgeTimerC']_vars

\* C19: a Put or Remove that leaves the pending log with more records than
\* max(pendingMax, pendingRatio x number of live entries) reports
\* needResched, so that the client goes on to signal the purger; the log is
\* never left over that bound without a signal forced: the call reports
\* needResched or a signal is in the channel already
PendingLogBound ==
    [][\A c \in Clients, k \in Keys :
          /\ (\E t \in TimeoutsMs : Put(c, k, t)) \/ Remove(c, k)
          /\ operLog' # operLog
          /\ Len(operLog') > pendingLimitOf(Size')
          => cpc'[c] = "notify" \/ resched' = 1]_vars

\* a ladder bucket at deadline d contains key k
InLadder(k, d) ==
    \E i \in 1 .. Len(timeouts) :
        timeouts[i].timeout = d /\ k \in SeqToSet(timeouts[i].data)

\* an ADD record of key k with deadline d is in the pending log
InLog(k, d) ==
    \E j \in 1 .. Len(operLog) : operLog[j] = TimedData(KeyOper(k, ADD), d)

\* C20: when the purger is not in the middle of a replay (and no client is
\* inside a Put or a Remove), every live entry with deadline D is in the
\* ladder bucket at D or has an ADD record with D in the log, and not both
ScheduleCoverage ==
    pc \notin {"grab", "replay"} =>
        \A k \in DOMAIN data :
            InLadder(k, data[k].timeout) # InLog(k, data[k].timeout)

\* C20 as it holds: in those states every live entry with deadline D is in
\* the ladder bucket at D or has an ADD record with D in the log; an entry
\* replaced with the deadline it had is in both until the next replay
ScheduleCoverageSome ==
    pc \notin {"grab", "replay"} =>
        \A k \in DOMAIN data :
            InLadder(k, data[k].timeout) \/ InLog(k, data[k].timeout)

\* a replay has just been applied: one live entry is in the ladder only,
\* another has only its ADD record in the log
ScheduleCoverageSeen ==
    /\ pc = "purge"
    /\ \E k \in DOMAIN data :
          InLadder(k, data[k].timeout) /\ ~InLog(k, data[k].timeout)
    /\ \E k \in DOMAIN data :
          InLog(k, data[k].timeout) /\ ~InLadder(k, data[k].timeout)

\* a DEL record of key k with deadline d waits in the pending log, or in the
\* log the purger has taken and not yet replayed
DelPending(k, d) ==
    \E j \in 1 .. Len(plog \o operLog) :
        (plog \o operLog)[j] = TimedData(KeyOper(k, DEL), d)

\* C21: between two cycles of the purger, a ladder bucket at deadline D
\* contains key k only if the live entry of k has deadline D or a DEL record
\* of k with D is still to be replayed; so the ladder never holds a key that
\* is absent from the store with no pending DEL
NoStaleLadderKeys ==
    pc = "select" =>
        \A i \in 1 .. Len(timeouts) :
            \A k \in SeqToSet(timeouts[i].data) :
                \/ k \in DOMAIN data /\ data[k].timeout = timeouts[i].timeout
                \/ DelPending(k, timeouts[i].timeout)

\* the records of key k in the pending log, a DEL with the ADD that follows
\* it at once (the two halves of a replace) counted as one record
PendingOps(k) ==
    {j \in 1 .. Len(operLog) :
        /\ operLog[j].data.key = k
        /\ ~(/\ j > 1
             /\ operLog[j].data.oper = ADD
             /\ operLog[j - 1].data = KeyOper(k, DEL))}

\* C22: every key appears in at most one pending record at any time
OnePendingPerKey == \A k \in Keys : Cardinality(PendingOps(k)) <= 1

\* the buckets are in strictly ascending order of deadline and none is empty
LadderWellFormed(ts) ==
    /\ IsSorted(ts)
    /\ \A i \in 1 .. Len(ts) : Len(ts[i].data) > 0

\* C23: after every replayed record and after every sweep the ladder is
\* sorted by strictly ascending deadline and has no empty bucket
LadderAlwaysWellFormed ==
    /\ [](LadderWellFormed(timeouts))
    /\ [][updateTimeoutsFromPendingList =>
             \A n \in 0 .. Len(plog) :
                 LadderWellFormed(ApplyLog(timeouts, SubSeq(plog, 1, n)))]_vars

\* a sweep has evicted an entry and left a ladder of a bucket, after a
\* replay of records for two deadlines
LadderAfterSweepSeen ==
    /\ pc = "rearm"
    /\ Len(timeouts) = 1
    /\ Size < cacheSize

\* C24: at the end of every cycle of the purger nextPurgeTime is the deadline
\* of the head bucket, or MaxInt64 when the ladder is empty; the timer is
\* stopped when the ladder is empty, and with a non-empty ladder the purger
\* waits with the timer armed, not before the head deadline, or with the
\* fired timer's value waiting in purgeTimer.C
RearmAfterCycle ==
    /\ [](pc = "select" =>
            /\ nextPurgeTime = IF timeouts = <<>> THEN MaxInt64
                               ELSE timeouts[1].timeout
            /\ timeouts = <<>> => purgeTimer = NoTimer
            /\ timeouts # <<>> =>
                  \/ purgeTimer # NoTimer /\ purgeTimer >= timeouts[1].timeout
                  \/ purgeTimerC)
    /\ [][purgeAndResetTimer /\ timeouts # <<>>
             /\ nextPurgeTime # timeouts[1].timeout
             => purgeTimer' - now = timeouts[1].timeout - pnow]_vars

\* the purger has evicted an entry and waits on the next head with the timer
\* armed
RearmedAfterSweepSeen ==
    /\ pc = "select"
    /\ timeouts # <<>>
    /\ purgeTimer # NoTimer
    /\ ~purgeTimerC
    /\ Size < cacheSize

\* the same statement for the Java worker: when updateAndGetMinTimeout has
\* returned, nextWakeupTime is the time of the head of timeouts, or
\* Long.MAX_VALUE, and the worker waits for the head's time or for the idle
\* time
RearmAfterCycleJava ==
    wpc \in {"await", "waiting"} =>
        /\ nextWakeupTime = IF jtimeouts = <<>> THEN MaxLong
                            ELSE jtimeouts[1].time
        /\ wpc = "waiting" /\ jtimeouts # <<>> =>
              waitUntil >= jtimeouts[1].time
        /\ wpc = "await" /\ nanoSec > 0 /\ remainingNanos = 0 =>
              nanoSec = IF jtimeouts = <<>> THEN maxSleepTime
                        ELSE jtimeouts[1].time - currNanos

\* s is a prefix of t
IsPrefix(s, t) == Len(s) <= Len(t) /\ SubSeq(t, 1, Len(s)) = s

\* C25 for the Go cache, where it holds: a step either keeps the records
\* that wait (taken or not) in their order, with new ones appended behind
\* them, or it is the replay, which applies the whole taken log in order and
\* drops it; the ladder changes in no other step but the sweep, which only
\* drops buckets from its head
TakeOverExactlyOnceGo ==
    [][/\ \/ IsPrefix(plog \o operLog, plog' \o operLog')
          \/ /\ plog # <<>>
             /\ plog' = <<>>
             /\ operLog' = operLog
             /\ timeouts' = ApplyLog(timeouts, plog)
       /\ plog' # plog /\ plog' # <<>> => plog = <<>> /\ operLog' = <<>>
       /\ timeouts' # timeouts =>
             \/ plog # <<>> /\ plog' = <<>>
             \/ \E n \in 1 .. Len(timeouts) :
                    timeouts' = SubSeq(timeouts, n + 1, Len(timeouts))]_vars

\* C25: the worker takes the whole pending map and installs an empty one in
\* one critical section, and every record taken is replayed against the
\* list of timeouts exactly once: the taken map changes only when the worker
\* takes the pending map, having none left, or when it has applied every
\* record of it
TakeOverExactlyOnce ==
    [][toToAddDel' # toToAddDel =>
          \/ /\ toToAddDel = <<>>
             /\ toToAddDel' = timeoutsToAddDel
             /\ timeoutsToAddDel' = <<>>
          \/ /\ toToAddDel' = <<>>
             /\ \E order \in Orders(DOMAIN toToAddDel) :
                   LET r == applyAll(jtimeouts, toToAddDel, order)
                   IN  ~r.thrown /\ jtimeouts' = r.timeouts]_vars

\* the bucket of time t in the list of timeouts contains key k
InTimeouts(k, t) ==
    \E i \in 1 .. Len(jtimeouts) :
        jtimeouts[i].time = t /\ k \in SeqToSet(jtimeouts[i].value)

\* C26: the replay of a DEL whose bucket is not in the ladder, or whose key
\* is not in that bucket, is ignored: the worker goes on to the sweep, and
\* when every taken record is such a DEL the ladder is left as it was
StaleDelIgnored ==
    [][updateApply =>
          /\ wpc' = "sweep"
          /\ (\A k \in DOMAIN toToAddDel :
                 /\ toToAddDel[k].value = JDEL
                 /\ ~InTimeouts(k, toToAddDel[k].time))
             => jtimeouts' = jtimeouts]_vars

\* the same for the Go purger, where it holds: the replay of a log of DEL
\* records that match no key of the ladder leaves the ladder as it was
StaleDelIgnoredGo ==
    [][updateTimeoutsFromPendingList =>
          /\ pc' = "purge"
          /\ (\A j \in 1 .. Len(plog) :
                 /\ plog[j].data.oper = DEL
                 /\ ~InLadder(plog[j].data.key, plog[j].timeout))
             => timeouts' = timeouts]_vars

\* the pending record of key k in map f: its shape and its deadlines
IsNone(f, k) == k \notin DOMAIN f
IsADD(f, k, t) == k \in DOMAIN f /\ f[k] = ValueTime(JADD, t)
IsDEL(f, k, t) == k \in DOMAIN f /\ f[k] = ValueTime(JDEL, t)
IsREPLACE(f, k, t0, t1) ==
    k \in DOMAIN f /\ t0 > 0 /\ f[k] = ValueTime(t0, t1)

\* C27: the coalescing table.  appendAddOper(k, old, new): none -> ADD(new)
\* if no entry existed (old = 0), REPLACE(old, new) if the put replaced an
\* entry; ADD(t) -> ADD(new); DEL(t) -> REPLACE(t, new); REPLACE(t0, t1) ->
\* REPLACE(t0, new).  appendDelOper(k, old): none -> DEL(old); ADD(t) ->
\* record removed; REPLACE(t0, t1) -> DEL(t0); DEL(t) -> DEL(old).  The
\* records of the other keys stay as they were.
CoalescingTable ==
    [][LET f == timeoutsToAddDel
           g == timeoutsToAddDel'
       IN  /\ \A k \in Keys, o \in {0} \cup CoalTimes, n \in CoalTimes :
                 callAppendAddOper(k, o, n) =>
                     /\ IsNone(f, k) /\ o = 0 => IsADD(g, k, n)
                     /\ IsNone(f, k) /\ o > 0 => IsREPLACE(g, k, o, n)
                     /\ \A t \in CoalTimes :
                           /\ IsADD(f, k, t) => IsADD(g, k, n)
                           /\ IsDEL(f, k, t) => IsREPLACE(g, k, t, n)
                           /\ \A t0 \in CoalTimes :
                                 IsREPLACE(f, k, t0, t) =>
                                     IsREPLACE(g, k, t0, n)
                     /\ \A x \in Keys \ {k} :
                           IF x \in DOMAIN f
                           THEN x \in DOMAIN g /\ g[x] = f[x]
                           ELSE x \notin DOMAIN g
           /\ \A k \in Keys, o \in CoalTimes :
                 callAppendDelOper(k, o) =>
                     /\ IsNone(f, k) => IsDEL(g, k, o)
                     /\ \A t \in CoalTimes :
                           /\ IsADD(f, k, t) => IsNone(g, k)
                           /\ IsDEL(f, k, t) => IsDEL(g, k, o)
                           /\ \A t0 \in CoalTimes :
                                 IsREPLACE(f, k, t0, t) => IsDEL(g, k, t0)
                     /\ \A x \in Keys \ {k} :
                           IF x \in DOMAIN f
                           THEN x \in DOMAIN g /\ g[x] = f[x]
                           ELSE x \notin DOMAIN g]_vars

\* appendAddOper has left REPLACE(1, 2) as the record of k1, next to a
\* pending record of k2
CoalescedReplaceSeen ==
    /\ jret = "appendAddOper"
    /\ IsREPLACE(timeoutsToAddDel, "k1", 1, 2)
    /\ ~IsNone(timeoutsToAddDel, "k2")

\* the list of timeouts in the form of the ladder the uncoalesced records
\* are replayed against
ToLadder(ts) == [i \in 1 .. Len(ts) |-> TimedData(ts[i].value, ts[i].time)]

Count(keys, k) == Cardinality({n \in 1 .. Len(keys) : keys[n] = k})

\* the same buckets with the same keys, whatever their order in a bucket
SameLadder(a, b) ==
    /\ Len(a) = Len(b)
    /\ \A i \in 1 .. Len(a) :
          /\ a[i].timeout = b[i].timeout
          /\ \A k \in Keys : Count(a[i].data, k) = Count(b[i].data, k)

\* C28: the replay of the coalesced per-key records, in any order of the
\* keys, produces the ladder that the replay of the uncoalesced DEL and ADD
\* records of the same calls produces, in the order they were appended
CoalescingPreservesReplay ==
    [][updateApply =>
          \A order \in Orders(DOMAIN toToAddDel) :
              LET r == applyAll(jtimeouts, toToAddDel, order)
              IN  /\ ~r.thrown
                  /\ SameLadder(ToLadder(r.timeouts),
                                ApplyLog(ToLadder(jtimeouts), utaken))]_vars

\* the replays that end without an exception
CoalescingPreservesReplayUnlessThrown ==
    [][updateApply =>
          \A order \in Orders(DOMAIN toToAddDel) :
              LET r == applyAll(jtimeouts, toToAddDel, order)
              IN  ~r.thrown =>
                      SameLadder(ToLadder(r.timeouts),
                                 ApplyLog(ToLadder(jtimeouts), utaken))]_vars

\* a worker thread that has not ended
WorkerAlive == wpc \notin {"none", "thrown"}

\* C29: single purger.  notifyReschedule starts a worker thread only when no
\* worker thread is alive, under every interleaving with the idle exit of the
\* worker, with shutdown and with the puts that follow a shutdown: two
\* workers never run at the same time.
SinglePurger ==
    [][\A c \in Clients :
          (notifyReschedule(c) /\ spawned' # spawned) => ~WorkerAlive]_vars

\* a second worker thread has been started, after the first one ended
SecondWorkerSeen == spawned >= 2 /\ wpc = "start"

\* no worker thread, and no client between its put or remove and its
\* notifyReschedule
NoWorkerNoCaller ==
    /\ worker = "null"
    /\ wpc = "none"
    /\ \A c \in Clients : jcpc[c] = "idle"

\* C30: idle self-termination.  The worker never exits while a live entry
\* exists, and a signal sent while it decides to exit is handled by it or
\* starts a new worker: once the worker is gone and every client call has
\* returned, no entry is left in the cache without a worker.
IdleExitLosesNothing == NoWorkerNoCaller => jdata = <<>>

\* the same for the signals that notifyReschedule delivered: the last call
\* did not end with the exception of addShutdownHook
IdleExitLosesNoDeliveredSignal ==
    (NoWorkerNoCaller /\ jret # "IllegalArgumentException") => jdata = <<>>

\* the worker never exits while a record is waiting in the pending map
IdleExitLeavesNoRecord == [][runIdle => timeoutsToAddDel = <<>>]_vars

\* the last record of key k in the log is the ADD with deadline d
LastAdd(log, k, d) ==
    \E j \in 1 .. Len(log) :
        /\ log[j] = TimedData(KeyOper(k, ADD), d)
        /\ \A m \in j + 1 .. Len(log) : log[m].data.key # k

\* deadline already passed at replay, Go.  An entry whose deadline is
\* already <= now when the purger replays its ADD is enqueued into the
\* ladder all the same, and the sweep of that same cycle (the step after the
\* replay, with the clock value read at the replay, no timer in between)
\* removes every bucket whose deadline has passed and deletes its keys from
\* the store: no such entry is dropped by the replay and none survives the
\* cycle.
PastDeadlineEvicted ==
    [][/\ updateTimeoutsFromPendingList =>
             /\ pc' = "purge" /\ pnow' = now
             /\ \A k \in Keys, d \in 1 .. MaxTime :
                   LastAdd(plog, k, d) /\ d <= now =>
                       \E i \in 1 .. Len(timeouts') :
                           /\ timeouts'[i].timeout = d
                           /\ k \in SeqToSet(timeouts'[i].data)
       /\ Sweep =>
             /\ \A i \in 1 .. Len(timeouts) :
                   timeouts[i].timeout <= pnow =>
                       \A k \in SeqToSet(timeouts[i].data) :
                           k \notin DOMAIN data'
             /\ \A j \in 1 .. Len(timeouts') : timeouts'[j].timeout > pnow]_vars

\* C31: deadline already passed at replay.  An entry of the store whose ADD
\* (or replacement) record is replayed after its deadline is enqueued into
\* the list by the replay, and the sweep of that same cycle goes on to
\* remove every head whose time has passed: the entry is not dropped and
\* does not survive the cycle.
PastDeadlineEvictedJava ==
    [][/\ updateApply =>
             \A k \in DOMAIN toToAddDel :
                 /\ toToAddDel[k].value # JDEL
                 /\ toToAddDel[k].time <= nanoTime
                 /\ k \in DOMAIN jdata
                 /\ jdata[k].time = toToAddDel[k].time
                 => /\ wpc' = "sweep"
                    /\ \E i \in 1 .. Len(jtimeouts') :
                          /\ jtimeouts'[i].time = toToAddDel[k].time
                          /\ k \in SeqToSet(jtimeouts'[i].value)
       /\ updateSweep /\ wpc' = "await" =>
             \A j \in 1 .. Len(jtimeouts') : jtimeouts'[j].time > currNanos]_vars

\* C32: Remove racing with expiry.  Remove(k) either finds the entry and
\* removes it, or finds that the purger removed it first and does nothing;
\* either way k is absent afterwards.  When the sweep removed the bucket of
\* k before the DEL record of that Remove is replayed, the purger does not
\* fail at the record, and after the replay no bucket of the ladder holds k.
RemoveRacingExpiry ==
    [][/\ \A c \in Clients, k \in Keys :
             remove(c, k) =>
                 /\ k \notin DOMAIN jdata'
                 /\ \/ k \in DOMAIN jdata /\ jret' = "remove"
                    \/ /\ k \notin DOMAIN jdata
                       /\ jret' = "remove absent"
                       /\ UNCHANGED <<jdata, timeoutsToAddDel>>
       /\ updateApply =>
             \A k \in DOMAIN toToAddDel :
                 /\ toToAddDel[k].value = JDEL
                 /\ ~InTimeouts(k, toToAddDel[k].time)
                 => /\ wpc' = "sweep"
                    /\ \A i \in 1 .. Len(jtimeouts') :
                          k \notin SeqToSet(jtimeouts'[i].value)]_vars

ClientCall ==
    \/ \E c \in Clients, k \in Keys, t \in TimeoutsMs : Put(c, k, t)
    \/ \E c \in Clients, k \in Keys : GetCall(c, k)
    \/ \E c \in Clients, k \in Keys : Remove(c, k)
    \/ \E c \in Clients : SizeCall(c)
    \/ \E c \in Clients : notifyResched(c)

\* C34: the ladder is private to the purger.  No step of Put, Get, Remove,
\* Size or notifyResched changes the ladder, and every change of the ladder
\* is made by the replay or by the sweep of the purger.
LadderPrivate ==
    [][timeouts' # timeouts =>
          /\ ~ClientCall
          /\ updateTimeoutsFromPendingList \/ Sweep]_vars

\* a Remove has returned and the ladder still lists the key it removed; its
\* DEL record waits in the log
LadderUntouchedByRemoveSeen ==
    /\ ret = "Remove"
    /\ \E k \in Keys :
          /\ k \notin DOMAIN data
          /\ \E d \in 1 .. MaxTime :
                /\ InLadder(k, d)
                /\ \E j \in 1 .. Len(operLog) :
                      operLog[j] = TimedData(KeyOper(k, DEL), d)

\* C35: happens-before of Put and purger.  The purger never takes the
\* pending record of a Put before that Put has returned to its caller: when
\* the purger takes the log, no client whose record is in it is still
\* inside its call, on its way to notifyResched.
PutReturnsBeforeTake ==
    [][TakeLog => \A c \in askers : cpc[c] # "notify"]_vars

\* C35 as it holds: the purger takes the pending record of a Put or a Remove
\* only after that call has released the store writer lock.  At the take
\* the purger is the only holder of the mutex and no client is inside its
\* critical section; the call may return to its caller later.
PutUnlocksBeforeTake ==
    [][TakeLog =>
          /\ mu = {"purger"}
          /\ \A c \in Clients : cpc[c] \notin {"locked", "rlocked"}]_vars

\* the purger holds the write lock for the take, the log holds the record
\* of a Put that has released the lock and has not returned yet
TakeBeforeReturnSeen ==
    /\ pc = "grab"
    /\ mu = {"purger"}
    /\ \E c \in askers :
          /\ cpc[c] = "notify"
          /\ ret = "Put"
          /\ \E j \in 1 .. Len(operLog) : operLog[j].data.oper = ADD

\* the goroutine h holds the mutex alone, as a writer
HoldsWriteLock(h) ==
    /\ mu = {h}
    /\ h = "purger" \/ cpc[h] = "locked"

\* C36: lock discipline.  A writer of the entry map holds the mutex alone: it
\* overlaps no other writer and no reader, and a reader (Get, Size) overlaps
\* no writer.  The entry map changes only in the critical section of a Put
\* or a Remove or in the sweep of the purger, with the write lock held; the
\* pending log and the live-entry counter change only with the write lock
\* held, by a client or by the purger's take; nextPurgeTime changes only in
\* the purger's critical section.
LockDiscipline ==
    /\ [](/\ Cardinality(Writers) <= 1
          /\ Writers # {} => mu = Writers
          /\ \A c \in Clients :
                /\ cpc[c] = "locked" => mu = {c}
                /\ cpc[c] = "rlocked" => c \in mu /\ Writers = {})
    /\ [][data' # data =>
             \/ \E c \in Clients : HoldsWriteLock(c) /\ Locked(c)
             \/ HoldsWriteLock("purger") /\ Sweep]_vars
    /\ [][operLog' # operLog \/ cacheSize' # cacheSize =>
             \/ \E c \in Clients : HoldsWriteLock(c) /\ Locked(c)
             \/ HoldsWriteLock("purger") /\ TakeLog]_vars
    /\ [][nextPurgeTime' # nextPurgeTime =>
             HoldsWriteLock("purger") /\ purgeAndResetTimer]_vars

\* the purger holds the write lock for a sweep that has entries to delete,
\* while one client stands at Lock() and the other at RLock()
SweepExcludesClientsSeen ==
    /\ pc = "purge"
    /\ HoldsWriteLock("purger")
    /\ Len(timeouts) > 0
    /\ pnow >= timeouts[1].timeout
    /\ \E k \in SeqToSet(timeouts[1].data) : k \in DOMAIN data
    /\ \E c, d \in Clients : cpc[c] = "Lock" /\ cpc[d] = "RLock"

\* the worker is awake with time remaining, no new minimum flagged and no
\* shutdown requested
SpuriousWake ==
    /\ wpc = "top"
    /\ remainingNanos > 0
    /\ ~hasNewMin
    /\ worker # "null"

\* C37: spurious wakeup.  awaitNanos returning before its time without a
\* signal hands the worker the time that remains; the worker's step from
\* SpuriousWake is case 3.2: it goes back to await with exactly the time
\* remaining and leaves timeouts, data, the pending map and nextWakeupTime
\* as they are; the await that follows parks until that time from now
\* unless a signal or a shutdown came in between.
SpuriousWakeReparks ==
    /\ [][awaitSpurious => remainingNanos' > 0 /\ ~hasNewMin' /\ wpc' = "top"]_vars
    /\ [][SpuriousWake /\ wpc' # wpc =>
             /\ wpc' = "await"
             /\ nanoSec' = remainingNanos
             /\ UNCHANGED <<jtimeouts, jdata, timeoutsToAddDel,
                            nextWakeupTime, toToAddDel, hasNewMin, worker>>]_vars
    /\ [][wpc = "await" /\ ~hasNewMin /\ worker # "null" /\ wpc' # wpc =>
             /\ wpc' = "waiting"
             /\ waitUntil' = nanoTime + nanoSec
             /\ UNCHANGED <<jtimeouts, jdata, timeoutsToAddDel,
                            nextWakeupTime>>]_vars

\* the worker is back at await after a spurious wake: the time it asks for
\* is what remained, less than the distance of the head of timeouts that
\* updateAndGetMinTimeout had computed
ReparkedForRemainingSeen ==
    /\ wpc = "await"
    /\ ~hasNewMin
    /\ worker # "null"
    /\ jtimeouts # <<>>
    /\ nextWakeupTime = jtimeouts[1].time
    /\ remainingNanos > 0
    /\ nanoSec = remainingNanos
    /\ nanoSec < jtimeouts[1].time - currNanos

\* a client appends to operLog while nextPurgeTime is MaxInt64
IdleAppend ==
    /\ nextPurgeTime = MaxInt64
    /\ Len(operLog') > Len(operLog)

\* C38: every appendAddOper and every appendDelOper performed while
\* nextPurgeTime is MaxInt64 (the purger has no deadline) returns needResched,
\* so that the client goes on to notifyResched.
IdleOperSignals ==
    [][IdleAppend =>
         \E c \in Clients : cpc[c] = "locked" /\ cpc'[c] = "notify"]_vars

\* C38, as the code has it: while nextPurgeTime is MaxInt64 an appendAddOper
\* returns needResched (its deadline is below MaxInt64), and an appendDelOper
\* returns it only if the deadline it removes is nextPurgeTime or the log
\* has grown over pendingLimit.
IdleAddSignals ==
    [][IdleAppend =>
         LET rec == operLog'[Len(operLog')]
         IN  \E c \in Clients :
                /\ cpc[c] = "locked"
                /\ cpc'[c] \in {"notify", "idle"}
                /\ cpc'[c] = "notify" <=>
                      \/ rec.data.oper = ADD
                      \/ rec.timeout = nextPurgeTime
                      \/ Len(operLog') > pendingLimitOf(cacheSize')]_vars

\* a Remove has left its DEL in the log while nextPurgeTime is MaxInt64 and
\* has returned without a signal: none is buffered and no client is about
\* to send one
IdleDelSilentSeen ==
    /\ nextPurgeTime = MaxInt64
    /\ ret = "Remove"
    /\ operLog # <<>>
    /\ operLog[Len(operLog)].data.oper = DEL
    /\ resched = 0
    /\ \A c \in Clients : cpc[c] # "notify"

\* the same in Java: with nextWakeupTime at Long.MAX_VALUE a put goes on to
\* notifyReschedule, a remove does not.
IdleAddSignalsJava ==
    /\ [][\A c \in Clients :
             nextWakeupTime = MaxLong /\ jcpc[c] = "put" /\ jcpc'[c] # "put"
                => jcpc'[c] = "notify"]_vars
    /\ [][nextWakeupTime = MaxLong /\ jret' = "remove" /\ jseq' # jseq
             => jcpc' = jcpc]_vars

\* C39: the live-entry counter.  In every state in which no goroutine holds
\* the mutex of the cache, cacheSize of the timeout manager is the number of
\* entries in the map.
CounterMatchesStore == mu = {} => cacheSize = Size

\* C40: deadline arithmetic.  For every timeoutMs > 0 the deadline that Put
\* stores is the number now + timeoutMs x 1,000,000: nothing is lost in the
\* 64 bits, the deadline is later than now, and it is neither 0 (the mark
\* of no previous entry) nor MaxInt64 (the mark of a purger with no
\* deadline).
DeadlineNeverWraps ==
    [][\A c \in Clients, k \in Keys, t \in TimeoutSamples :
          PutWide(c, k, t) /\ seq' # seq =>
              LET d == data'[k].timeout
              IN  /\ Extend(d, Int64Bytes + 4) = DeadlineExact(now, t)
                  /\ LessWide(now, d)
                  /\ d # Zero64
                  /\ d # MaxInt64Wide]_vars

\* the parts of C40 one by one: the stored deadline is later than now
DeadlineAfterNow ==
    \A k \in DOMAIN data : LessWide(now, data[k].timeout)

\* the stored deadline is not the mark of no previous entry
DeadlineNotZero ==
    \A k \in DOMAIN data : data[k].timeout # Zero64

\* the stored deadline is not the mark of a purger with no deadline
DeadlineNotMaxInt64 ==
    \A k \in DOMAIN data : data[k].timeout # MaxInt64Wide

\* where nothing is lost in the 64 bits and the sum is below MaxInt64, the
\* stored deadline is the number, and it is later than now
DeadlineExactInRange ==
    [][\A c \in Clients, k \in Keys, t \in TimeoutSamples :
          /\ PutWide(c, k, t) /\ seq' # seq
          /\ LessWide(DeadlineExact(now, t),
                      Extend(MaxInt64Wide, Int64Bytes + 4))
          /\ ~IsNegative(DeadlineExact(now, t))
          => LET d == data'[k].timeout
             IN  /\ Extend(d, Int64Bytes + 4) = DeadlineExact(now, t)
                 /\ LessWide(now, d)
                 /\ d # Zero64
                 /\ d # MaxInt64Wide]_vars

====
